---------------------------- MODULE Spec2Model ----------------------------
(***************************************************************************)
(* Grimoire (dzhcrt/Grimoire): the FB2 reader's reading session, its title *)
(* batches and its FB2 extractor.                                          *)
(*                                                                         *)
(* The model covers MainWindow of src/main.py: the paginator               *)
(* (paginate_current_text), the page display and progress bookkeeping      *)
(* (show_current_page, update_page_and_progress_labels), page navigation,  *)
(* the viewport resize handler, opening and selecting books, the library   *)
(* scan and the progress restored from the persisted cache; the worker    *)
(* that extracts the titles of the tree (MetadataWorker of                 *)
(* src/tree_view.py, started and cancelled by MainWindow); the two         *)
(* extractors of src/fb2_utils.py; and the cache file of the tree and of   *)
(* the progress (save_cache, load_cache).                                  *)
(*                                                                         *)
(* Conventions.                                                            *)
(*  - A text is a sequence of one-character strings.  Python indices are   *)
(*    0-based; text[p] of the source is text[p + 1] here.                  *)
(*  - A float ratio is an exact rational <<n, d>>, d > 0, in lowest terms. *)
(*    The ratios of the program are index / (pageCount - 1) and the        *)
(*    values read from the cache; for every page count up to 22 the        *)
(*    double-precision results of round(ratio * (pageCount - 1)) and       *)
(*    round(ratio * 100) equal the exact ones, and int(capacity * 0.8)     *)
(*    equals (4 * capacity) \div 5 for every capacity below 200000.        *)
(*  - None and the empty string are both the empty sequence: the source    *)
(*    tests current_full_text only with `not`, which does not tell them    *)
(*    apart.                                                               *)
(*  - The widgets are write-only for the session logic; of them the model  *)
(*    keeps the progress label, the page fields and the two enabled flags  *)
(*    that gate user input, and leaves out the text reader_edit shows.     *)
(*  - The Qt event loop runs one handler at a time, so every handler is    *)
(*    one atomic action.  A QTimer.singleShot(0, ...) callback is queued   *)
(*    and runs as a later action, after any input events that the event    *)
(*    loop delivers first.                                                 *)
(*                                                                         *)
(* Specifications.                                                         *)
(*  - Spec: the session over a library of two short books, every handler   *)
(*    atomic.                                                              *)
(*  - LongSpec: one reading session of a book of 10 or 20 pages.           *)
(*  - PagSpec: paginate_current_text statement by statement, on texts,     *)
(*    metrics and ratios drawn from bounded sets, run to its end.          *)
(*  - MetaSpec: the scans of the library and the title batches they       *)
(*    start and cancel, the worker threads statement by statement.  Spec   *)
(*    leaves the batches out of its Rescan.                                *)
(*  - Fb2Spec: extract_fb2_title and parse_fb2_book_info applied to a path *)
(*    and a file drawn from bounded sets, and _find_first_child applied    *)
(*    to a node of the file, or to None, and a name.                       *)
(*  - CacheSpec: the cache file across the runs of the program: a tree     *)
(*    built by a scan, titles and progress written, files deleted,         *)
(*    save_cache on closing and load_cache on the next start.              *)
(***************************************************************************)
EXTENDS Integers, Sequences, FiniteSets, TLC

VARIABLES
    book_progress,       \* self.book_progress: path -> ratio (a dict)
    book_info_cache,     \* self.book_info_cache: the paths already parsed
    current_book_path,   \* self.current_book_path
    is_reading,          \* self.is_reading
    current_full_text,   \* self.current_full_text
    pages,               \* self.pages
    current_page_index,  \* self.current_page_index
    lbl_progress,        \* the percent shown by lbl_progress_info/_read
    page_edit,           \* the number shown by page_edit
    lbl_page_total,      \* the number shown by lbl_page_total
    page_edit_enabled,   \* page_edit.isEnabled()
    btn_open_book,       \* btn_open_book.isEnabled()
    selected,            \* the tree item selected in book_tree
    width, height,       \* reader_edit.viewport() size
    avg_char_w, line_h,  \* reader_edit.fontMetrics()
    library,             \* the .fb2 files on disk: path -> length of the text
    timers,              \* pending QTimer.singleShot(0, ...) callbacks
    pc,                  \* position inside paginate_current_text
    pg_ratio,            \* paginate_current_text: the argument ratio
    pg_i,                \* paginate_current_text: the local i
    pg_pages,            \* paginate_current_text: the local pages
    op,                  \* the handler that ran last
    burst,               \* the resize events since the last other event
    metadata_worker,     \* self.metadata_worker: a batch number, 0 for None
    metadata_thread,     \* self.metadata_thread: a batch number, 0 for None
    workers,             \* the MetadataWorker and the QThread of each batch
    events,              \* queued signals awaiting the main event loop
    tree,                \* the scan whose items book_tree holds
    main_pc,             \* the main thread: in its event loop or in wait()
    last,                \* the queued signal the main thread handled last
    fb2_path,            \* the path an extractor of fb2_utils is called with
    fb2_file,            \* what ET.parse makes of the file at that path
    fb2_title,           \* the outcome of extract_fb2_title, once called
    fb2_info,            \* the outcome of parse_fb2_book_info, once called
    fb2_child,           \* a call of _find_first_child and its outcome
    current_root_path,   \* self.current_root_path
    book_tree,           \* the items of book_tree
    metadata_tasks,      \* the items whose titles are still to come
    path_progress,       \* self.book_progress, its keys the absolute paths
    cache_file,          \* the cache file, None when there is none
    files, dirs,         \* the disk: what isfile and isdir hold of
    removed,             \* the files deleted from the disk so far
    running              \* the program runs: FALSE from closeEvent on

\* The reading session and the paginator.
sessionVars ==
    <<book_progress, book_info_cache, current_book_path, is_reading,
      current_full_text, pages, current_page_index,
      lbl_progress, page_edit, lbl_page_total, page_edit_enabled,
      btn_open_book, selected, width, height,
      avg_char_w, line_h, library, timers, pc, pg_ratio, pg_i, pg_pages, op,
      burst>>

\* The title batches of the tree.
metaVars ==
    <<metadata_worker, metadata_thread, workers, events, tree, main_pc, last>>

\* The extractor of fb2_utils.py.
fbVars == <<fb2_path, fb2_file, fb2_title, fb2_info, fb2_child>>

\* The cache of the tree and of the progress.
cacheVars ==
    <<current_root_path, book_tree, metadata_tasks, path_progress,
      cache_file, files, dirs, removed, running>>

vars == <<sessionVars, metaVars, fbVars, cacheVars>>

---------------------------------------------------------------------------
(* Python's numbers.                                                       *)

Max(a, b) == IF a >= b THEN a ELSE b

Min(a, b) == IF a <= b THEN a ELSE b

Abs(a) == IF a < 0 THEN -a ELSE a

RECURSIVE Gcd(_, _)
Gcd(a, b) == IF b = 0 THEN a ELSE Gcd(b, a % b)

\* The float n / d, d > 0.
Ratio(n, d) ==
    LET g == Gcd(Abs(n), d) IN <<n \div g, d \div g>>

Zero == Ratio(0, 1)

One == Ratio(1, 1)

RLeq(a, b) == a[1] * b[2] <= b[1] * a[2]

RMax(a, b) == IF RLeq(b, a) THEN a ELSE b

RMin(a, b) == IF RLeq(a, b) THEN a ELSE b

\* max(0.0, min(1.0, ratio))
Clamp01(ratio) == RMax(Zero, RMin(One, ratio))

\* round(n / d) as schoolbook rounding has it: a tie goes up.
RoundHalfUp(n, d) == (2 * n + d) \div (2 * d)

\* Python 3's round(n / d): to the nearest integer, a tie to the even one.
PyRound(n, d) ==
    LET f == n \div d
        r == n - f * d
    IN  IF 2 * r < d THEN f
        ELSE IF 2 * r > d THEN f + 1
        ELSE IF f % 2 = 0 THEN f ELSE f + 1

\* int(round(ratio * k))
RoundTimes(ratio, k) == PyRound(ratio[1] * k, ratio[2])

---------------------------------------------------------------------------
(* Python's strings.                                                       *)

Whitespace == {" ", "\n"}

\* text[a:b + 1]: a slice that takes one character more
SliceThrough(text, a, b) == SubSeq(text, a + 1, Min(b + 1, Len(text)))

\* text[a:b] for 0 <= a <= b <= len(text)
Slice(text, a, b) == SubSeq(text, a + 1, b)

\* text.rfind(" ", start, end): the last p in [start, end) holding a space,
\* -1 when there is none; the scan runs from end - 1 down to start and
\* stops after the d positions that hold none
RFindFrom(text, start, p) ==
    IF \A q \in start .. p : text[q + 1] # " " THEN -1
    ELSE p - (CHOOSE d \in 0 .. p - start :
                  /\ \A j \in 0 .. d - 1 : text[p - j + 1] # " "
                  /\ text[p - d + 1] = " ")

RFind(text, start, end) == RFindFrom(text, start, end - 1)

\* The first position from p on that holds no whitespace (Len(s) + 1: none).
FirstKept(s, p) ==
    IF p > Len(s) THEN p
    ELSE CHOOSE k \in p .. Len(s) + 1 :
             /\ \A j \in p .. k - 1 : s[j] \in Whitespace
             /\ k = Len(s) + 1 \/ s[k] \notin Whitespace

\* The last position up to p that holds no whitespace (0: none).
LastKept(s, p) ==
    IF p < 1 THEN p
    ELSE p - (CHOOSE d \in 0 .. p :
                  /\ \A j \in 0 .. d - 1 : s[p - j] \in Whitespace
                  /\ d = p \/ s[p - d] \notin Whitespace)

\* A strip() that removes nothing.
StripNothing(s) == s

\* s.strip()
Strip(s) == SubSeq(s, FirstKept(s, 1), LastKept(s, Len(s)))

---------------------------------------------------------------------------
(* paginate_current_text: the capacity and the splitter.                   *)

MinCharsPerLine == 20

MinLinesPerPage == 3

\* The capacity without the floors of 20 characters and 3 lines.
CapacityNoFloor(w, h, cw, lh) ==
    (Max(1, w) \div Max(1, cw)) * (Max(1, h) \div Max(1, lh))

\* capacity = chars_per_line * lines_per_page (// on divisors >= 1)
Capacity(w, h, cw, lh) ==
    LET w1 == Max(1, w)
        h1 == Max(1, h)
        cw1 == Max(1, cw)
        lh1 == Max(1, lh)
        chars_per_line == Max(MinCharsPerLine, w1 \div cw1)
        lines_per_page == Max(MinLinesPerPage, h1 \div lh1)
    IN  chars_per_line * lines_per_page

\* The split position, had the loop never looked for a space.
SplitPosAtEnd(text, i, capacity) == Min(i + capacity, Len(text))

\* One iteration of the while loop at i < n: the split position.
SplitPos(text, i, capacity) ==
    LET n == Len(text)
        end == Min(i + capacity, n)
        split_from == Min(n, i + (4 * capacity) \div 5)
        split_pos == RFind(text, split_from, end)
    IN  IF split_pos = -1 \/ split_pos <= i THEN end ELSE split_pos

\* The pages the loop appends from position i on.
RECURSIVE SplitFrom(_, _, _)
SplitFrom(text, i, capacity) ==
    IF i < Len(text)
    THEN LET split_pos == SplitPos(text, i, capacity)
         IN  <<Strip(Slice(text, i, split_pos))>>
                 \o SplitFrom(text, split_pos, capacity)
    ELSE <<>>

---------------------------------------------------------------------------
(* The reading session: the fields the display chain reads and writes.     *)

None == "None"

\* An Optional value of the extractor, where None and the empty string
\* differ: <<>> for None, <<v>> for the value v.
Absent == <<>>

Some(v) == <<v>>

\* self, as the methods below see it
Self ==
    [book_progress |-> book_progress,
     current_book_path |-> current_book_path,
     is_reading |-> is_reading,
     current_full_text |-> current_full_text,
     pages |-> pages,
     current_page_index |-> current_page_index,
     lbl_progress |-> lbl_progress,
     page_edit |-> page_edit,
     lbl_page_total |-> lbl_page_total,
     page_edit_enabled |-> page_edit_enabled,
     btn_open_book |-> btn_open_book,
     width |-> width,
     height |-> height,
     avg_char_w |-> avg_char_w,
     line_h |-> line_h]

\* float(d.get(path, 0.0))
Get(d, path) == IF path \in DOMAIN d THEN d[path] ELSE Zero

\* The ratio stored for every book.
PutEvery(d, path, ratio) == [q \in DOMAIN d \cup {path} |-> ratio]

\* d[path] = ratio
Put(d, path, ratio) ==
    [q \in DOMAIN d \cup {path} |-> IF q = path THEN ratio ELSE d[q]]

\* int(round(ratio * 100))
Percent(ratio) == RoundTimes(ratio, 100)

update_page_and_progress_labels(s, ratio) ==
    LET total_pages ==
            IF s.is_reading /\ s.pages # <<>> THEN Len(s.pages) ELSE 0
    IN  IF ~s.is_reading \/ total_pages = 0
        THEN [s EXCEPT
                !.lbl_progress =
                    IF s.current_book_path # None
                    THEN Percent(Get(s.book_progress, s.current_book_path))
                    ELSE 0,
                !.page_edit = 0,
                !.lbl_page_total = 0]
        ELSE LET current_page ==
                     Min(Max(s.current_page_index + 1, 1), total_pages)
                 r == Clamp01(ratio)
             IN  [s EXCEPT
                    !.page_edit = current_page,
                    !.lbl_page_total = total_pages,
                    !.page_edit_enabled = (total_pages > 1),
                    !.lbl_progress = Percent(r),
                    !.book_progress =
                        IF s.current_book_path # None
                        THEN Put(s.book_progress, s.current_book_path, r)
                        ELSE s.book_progress]

show_current_page(s) ==
    IF s.pages = <<>>
    THEN update_page_and_progress_labels(s, Zero)
    ELSE LET idx == Max(0, Min(s.current_page_index, Len(s.pages) - 1))
             ratio == IF Len(s.pages) = 1 THEN Zero
                      ELSE Ratio(idx, Len(s.pages) - 1)
         IN  update_page_and_progress_labels(
                 [s EXCEPT !.current_page_index = idx], ratio)

\* if len(pages) == 1: 0 else int(round(clamp(ratio) * (len(pages) - 1)))
IndexOfRatio(ratio, n) ==
    IF n = 1 THEN 0 ELSE RoundTimes(Clamp01(ratio), n - 1)

\* paginate_current_text from `if not pages` on, given the local pages
paginate_finish(s, local_pages, ratio) ==
    LET ps == IF local_pages = <<>> THEN << <<>> >> ELSE local_pages
    IN  show_current_page(
            [s EXCEPT !.pages = ps,
                      !.current_page_index = IndexOfRatio(ratio, Len(ps))])

\* The early return of an empty text, had it left no page.
paginate_empty_no_page(s) ==
    show_current_page(
        [s EXCEPT !.pages = <<>>, !.current_page_index = 0])

\* paginate_current_text up to the loop: the early return of an empty text
paginate_empty(s) ==
    show_current_page(
        [s EXCEPT !.pages = << <<>> >>, !.current_page_index = 0])

paginate_current_text(s, ratio) ==
    IF s.current_full_text = <<>>
    THEN paginate_empty(s)
    ELSE paginate_finish(
             s,
             SplitFrom(s.current_full_text, 0,
                       Capacity(s.width, s.height, s.avg_char_w, s.line_h)),
             ratio)

go_to_page(s, page_index) ==
    IF ~s.is_reading \/ s.pages = <<>>
    THEN s
    ELSE LET total == Len(s.pages)
         IN  show_current_page(
                 [s EXCEPT !.current_page_index =
                               Max(0, Min(page_index, total - 1))])

go_next_page(s) ==
    IF ~s.is_reading THEN s ELSE go_to_page(s, s.current_page_index + 1)

go_prev_page(s) ==
    IF ~s.is_reading THEN s ELSE go_to_page(s, s.current_page_index - 1)

\* show_book_info: the progress label, the page fields and the open button
show_book_info(s, has_info, path) ==
    [s EXCEPT
        !.btn_open_book = has_info /\ path # None,
        !.lbl_progress =
            IF has_info /\ path # None
            THEN Percent(Get(s.book_progress, path))
            ELSE 0,
        !.page_edit = 0,
        !.lbl_page_total = 0,
        !.page_edit_enabled = FALSE]

\* The assignment of a session record to the primed variables.
Commit(s) ==
    \E t \in {s} :
    /\ book_progress' = t.book_progress
    /\ current_book_path' = t.current_book_path
    /\ is_reading' = t.is_reading
    /\ current_full_text' = t.current_full_text
    /\ pages' = t.pages
    /\ current_page_index' = t.current_page_index
    /\ lbl_progress' = t.lbl_progress
    /\ page_edit' = t.page_edit
    /\ lbl_page_total' = t.lbl_page_total
    /\ page_edit_enabled' = t.page_edit_enabled
    /\ btn_open_book' = t.btn_open_book
    /\ width' = t.width
    /\ height' = t.height
    /\ avg_char_w' = t.avg_char_w
    /\ line_h' = t.line_h

---------------------------------------------------------------------------
(* The library and the bounds of the model.                                *)

\* The .fb2 files of the library folder, in tree order.
Books == <<"A", "B">>

BookSet == {Books[k] : k \in 1 .. Len(Books)}

\* A tree item that is no book: the root or a folder.
Folder == "Folder"

Letters == <<"a", "b", "c">>

\* A text of len characters: a space at every sp-th position, a line break
\* at every nl-th, letters elsewhere (0: none).
TextOf(len, sp, nl) ==
    [p \in 1 .. len |->
        IF sp > 0 /\ p % sp = 0 THEN " "
        ELSE IF nl > 0 /\ p % nl = 0 THEN "\n"
        ELSE Letters[(p % 3) + 1]]

\* A text of len letters but for the spaces at the positions from .. to:
\* a paragraph that holds a run of spaces between two words.
GapText(len, from, to) ==
    [p \in 1 .. len |->
        IF from <= p /\ p <= to THEN " " ELSE Letters[(p % 3) + 1]]

\* What open_current_book reads as the text of a book: info.full_text, else
\* info.description, else the placeholder; never empty.  A file of the
\* library holds words of six letters.
BookText(lib, path) == TextOf(lib[path], 7, 0)

LenShort == 5

LenMedium == 130

LenLong == 1100

ShortLibrary == [b \in BookSet |-> IF b = Books[1] THEN LenMedium ELSE LenShort]

LongLibrary == [b \in BookSet |-> IF b = Books[1] THEN LenLong ELSE LenShort]

\* Viewport sizes of a session, with characters and lines of one pixel:
\* one or two columns of 20 characters, 3 lines.
Widths == {MinCharsPerLine, 2 * MinCharsPerLine}

Heights == {MinLinesPerPage}

MaxPending == 1

MaxBurst == 2

MaxTyped == 3

\* No title batch has been started (lines 308-310).
NoBatch ==
    /\ metadata_worker = 0
    /\ metadata_thread = 0
    /\ workers = <<>>
    /\ events = <<>>
    /\ tree = 0
    /\ main_pc = "loop"
    /\ last = [signal |-> "none", worker |-> 0, task |-> 0, tree |-> 0]

\* No function of fb2_utils has been applied to a file.
NoFile ==
    /\ fb2_path = <<>>
    /\ fb2_file = [error |-> None, root |-> Absent]
    /\ fb2_title = Absent
    /\ fb2_info = Absent
    /\ fb2_child = Absent

\* No library chosen, no cache file, and nothing on the disk.
NoCache ==
    /\ current_root_path = <<>>
    /\ book_tree = <<>>
    /\ metadata_tasks = <<>>
    /\ path_progress = <<>>
    /\ cache_file = Absent
    /\ files = {}
    /\ dirs = {}
    /\ removed = 0
    /\ running = TRUE

NoBurst == [runs |-> 0, from |-> 0, before |-> 0]

\* No float: the ratio of a handler that did not call paginate_current_text.
NoRatio == <<0, 0>>

\* The record of a handler that ran: its name and, when it called
\* paginate_current_text, the ratio it passed and the book the call was
\* made for.
Ran(name) == [name |-> name, ratio |-> NoRatio, book |-> None]

RanPaginate(name, ratio, book) == [name |-> name, ratio |-> ratio, book |-> book]

CurrentCapacity == Capacity(width, height, avg_char_w, line_h)

---------------------------------------------------------------------------
(* The handlers.                                                           *)

Idle == /\ pc = "idle"
        /\ UNCHANGED <<pc, pg_i, pg_pages>>
        /\ UNCHANGED metaVars
        /\ UNCHANGED fbVars
        /\ UNCHANGED cacheVars

\* on_tree_selection_changed, for the item the user selects
on_tree_selection_changed(s, cache, item) ==
    IF item \notin BookSet
    THEN [session |-> show_book_info(s, FALSE, None), cache |-> cache]
    ELSE [session |->
              show_book_info(
                  [s EXCEPT !.current_book_path = item,
                            !.is_reading = FALSE],
                  TRUE, item),
          cache |-> cache \cup {item}]

SelectItem(item) ==
    /\ Idle
    /\ item # selected
    /\ selected' = item
    /\ LET r == on_tree_selection_changed(Self, book_info_cache, item)
       IN  /\ Commit(r.session)
           /\ book_info_cache' = r.cache
    /\ op' = Ran("on_tree_selection_changed")
    /\ burst' = NoBurst
    /\ UNCHANGED <<library, timers, pg_ratio>>

\* open_current_book; the deferred paginate_current_text(ratio) is queued
OpenCurrentBook ==
    /\ Idle
    /\ ~is_reading
    /\ btn_open_book
    /\ current_book_path # None
    /\ Len(timers) < MaxPending
    /\ book_info_cache' = book_info_cache \cup {current_book_path}
    /\ Commit([Self EXCEPT
                  !.current_full_text = BookText(library, current_book_path),
                  !.is_reading = TRUE])
    /\ timers' = Append(timers,
                        [ratio |-> Get(book_progress, current_book_path),
                         book |-> current_book_path])
    /\ op' = Ran("open_current_book")
    /\ burst' = NoBurst
    /\ UNCHANGED <<library, selected, pg_ratio>>

\* The QTimer.singleShot(0, ...) callback of open_current_book
TimerFire ==
    /\ Idle
    /\ timers # <<>>
    /\ Commit(paginate_current_text(Self, Head(timers).ratio))
    /\ timers' = Tail(timers)
    /\ op' = RanPaginate("singleShot", Head(timers).ratio, Head(timers).book)
    /\ burst' = NoBurst
    /\ UNCHANGED <<library, book_info_cache, selected, pg_ratio>>

back_to_info(s, cache) ==
    LET t == [s EXCEPT !.is_reading = FALSE]
    IN  IF t.current_book_path # None
        THEN show_book_info(t, t.current_book_path \in cache,
                            t.current_book_path)
        ELSE t

BackToInfo ==
    /\ Idle
    /\ is_reading
    /\ Commit(back_to_info(Self, book_info_cache))
    /\ op' = Ran("back_to_info")
    /\ burst' = NoBurst
    /\ UNCHANGED <<library, book_info_cache, selected, timers, pg_ratio>>

GoNextPage ==
    /\ Idle
    /\ is_reading
    /\ Commit(go_next_page(Self))
    /\ op' = Ran("go_next_page")
    /\ burst' = NoBurst
    /\ UNCHANGED <<library, book_info_cache, selected, timers, pg_ratio>>

GoPrevPage ==
    /\ Idle
    /\ is_reading
    /\ Commit(go_prev_page(Self))
    /\ op' = Ran("go_prev_page")
    /\ burst' = NoBurst
    /\ UNCHANGED <<library, book_info_cache, selected, timers, pg_ratio>>

\* on_page_edit_return; typed < 0 stands for a text that is not all digits
on_page_edit_return(s, typed) ==
    IF ~s.is_reading \/ s.pages = <<>> \/ typed < 0
    THEN s
    ELSE go_to_page(s, Min(Max(typed, 1), Len(s.pages)) - 1)

PageEditReturn(typed) ==
    /\ Idle
    /\ is_reading
    /\ page_edit_enabled
    /\ Commit(on_page_edit_return(Self, typed))
    /\ op' = Ran("on_page_edit_return")
    /\ burst' = NoBurst
    /\ UNCHANGED <<library, book_info_cache, selected, timers, pg_ratio>>

\* on_reader_resized, after the viewport took its new size
on_reader_resized(s) ==
    IF ~s.is_reading \/ s.current_full_text = <<>>
           \/ s.current_book_path = None
    THEN s
    ELSE paginate_current_text(s, Get(s.book_progress, s.current_book_path))

ResizePaginates ==
    is_reading /\ current_full_text # <<>> /\ current_book_path # None

\* ReaderTextEdit.resizeEvent: viewportResized is emitted synchronously
Resize(w, h) ==
    /\ Idle
    /\ <<w, h>> # <<width, height>>
    /\ Commit(on_reader_resized([Self EXCEPT !.width = w, !.height = h]))
    /\ burst' = IF ResizePaginates
                THEN [runs |-> Min(burst.runs + 1, MaxBurst),
                      from |-> CurrentCapacity,
                      before |-> current_page_index]
                ELSE NoBurst
    /\ op' = IF ResizePaginates
             THEN RanPaginate("on_reader_resized",
                              Get(book_progress, current_book_path),
                              current_book_path)
             ELSE Ran("on_reader_resized")
    /\ UNCHANGED <<library, book_info_cache, selected, timers, pg_ratio>>

\* build_tree_from_scan up to show_book_info(None, None)
build_tree_from_scan(s) ==
    show_book_info(
        [s EXCEPT !.current_book_path = None,
                  !.is_reading = FALSE,
                  !.current_full_text = <<>>,
                  !.pages = <<>>,
                  !.current_page_index = 0],
        FALSE, None)

\* refresh_current_folder / choose_folder: the scan, then select_first_book,
\* whose setCurrentItem runs on_tree_selection_changed
Rescan ==
    /\ Idle
    /\ LET r == on_tree_selection_changed(
                    build_tree_from_scan(Self), {}, Books[1])
       IN  /\ Commit(r.session)
           /\ book_info_cache' = r.cache
    /\ selected' = Books[1]
    /\ op' = Ran("build_tree_from_scan")
    /\ burst' = NoBurst
    /\ UNCHANGED <<library, timers, pg_ratio>>

---------------------------------------------------------------------------
(* The session after MainWindow.__init__: the tree comes from load_cache   *)
(* (with the progress of the cache file) or from the first scan (with no   *)
(* progress); select_first_book has selected the first book.               *)

\* load_cache, line 504: the progress of an entry is stored as read
load_cache(entries) == [b \in DOMAIN entries |-> entries[b]]

CacheFiles ==
    {[b \in BookSet |-> Ratio(1, 2)],
     [b \in BookSet |-> IF b = Books[1] THEN Ratio(3, 2) ELSE Ratio(-1, 2)]}

InitialProgress ==
    {load_cache(f) : f \in CacheFiles} \cup {[b \in {} |-> Zero]}

\* The session after construction, for a library and the progress restored.
InitWith(lib, progress) ==
    /\ book_progress = progress
    /\ book_info_cache = {Books[1]}
    /\ current_book_path = Books[1]
    /\ is_reading = FALSE
    /\ current_full_text = <<>>
    /\ pages = <<>>
    /\ current_page_index = 0
    /\ lbl_progress = Percent(Get(progress, Books[1]))
    /\ page_edit = 0
    /\ lbl_page_total = 0
    /\ page_edit_enabled = FALSE
    /\ btn_open_book = TRUE
    /\ selected = Books[1]
    /\ width = 2 * MinCharsPerLine
    /\ height = MinLinesPerPage
    /\ avg_char_w = 1
    /\ line_h = 1
    /\ library = lib
    /\ timers = <<>>
    /\ pc = "idle"
    /\ pg_ratio = Zero
    /\ pg_i = 0
    /\ pg_pages = <<>>
    /\ op = Ran("init")
    /\ burst = NoBurst
    /\ NoBatch

Init ==
    /\ \E progress \in InitialProgress : InitWith(ShortLibrary, progress)
    /\ NoFile
    /\ NoCache

Next ==
    \/ \E item \in BookSet \cup {Folder} : SelectItem(item)
    \/ OpenCurrentBook
    \/ TimerFire
    \/ BackToInfo
    \/ GoNextPage
    \/ GoPrevPage
    \/ \E typed \in -1 .. MaxTyped : PageEditReturn(typed)
    \/ \E w \in Widths, h \in Heights : Resize(w, h)
    \/ Rescan

Spec == Init /\ [][Next]_vars

---------------------------------------------------------------------------
(* One reading session of a long book: a library whose first book fills    *)
(* 10 pages of 120 characters or 20 pages of 60, read without leaving the  *)
(* book.                                                                   *)

LongInit ==
    /\ \E progress \in InitialProgress : InitWith(LongLibrary, progress)
    /\ NoFile
    /\ NoCache

LongNext ==
    \/ OpenCurrentBook
    \/ TimerFire
    \/ BackToInfo
    \/ GoNextPage
    \/ GoPrevPage
    \/ \E w \in Widths, h \in Heights : Resize(w, h)

LongSpec == LongInit /\ [][LongNext]_vars

---------------------------------------------------------------------------
(* paginate_current_text statement by statement, on inputs drawn from      *)
(* bounded sets: the text, the four viewport and font metrics (zero and    *)
(* negative values included) and the ratio.                                *)

PagTexts ==
    {TextOf(0, 0, 0), TextOf(1, 0, 0), TextOf(LenShort, 3, 0),
     TextOf(LenMedium, 7, 0), TextOf(LenMedium, 3, 2),
     TextOf(2 * LenMedium - 10, 5, 0), TextOf(2 * LenMedium, 0, 0),
     TextOf(2 * LenMedium, 9, 31), TextOf(LenMedium, 0, 30),
     TextOf(LenLong - 100, 0, 0),
     GapText(LenMedium, 41, 110),
     TextOf(LenLong, 7, 0)}

PagWidths == {-1, 0, 2 * MinCharsPerLine}

PagHeights == {0, MinLinesPerPage + 2, 2 * MinLinesPerPage}

PagCharWidths == {0, 2}

PagLineHeights == {-1, 1}

PagRatios == {Ratio(-1, 2), Ratio(1, 3), Ratio(1, 2), Ratio(3, 2)}

\* The page set the call finds: none yet, or the two pages of an earlier
\* pagination, shown at the second.
PagPrevious == {<<>>, << <<"a", "b">>, <<"c">> >>}

PagInit ==
    /\ pages \in PagPrevious
    /\ current_page_index = Max(0, Len(pages) - 1)
    /\ book_progress = IF pages = <<>> THEN [b \in {} |-> Zero]
                       ELSE [b \in {Books[1]} |->
                                Ratio(current_page_index, Len(pages) - 1)]
    /\ book_info_cache = {Books[1]}
    /\ current_book_path = Books[1]
    /\ is_reading = TRUE
    /\ current_full_text \in PagTexts
    /\ lbl_progress = IF pages = <<>> THEN 0
                      ELSE Percent(book_progress[Books[1]])
    /\ page_edit = IF pages = <<>> THEN 0 ELSE current_page_index + 1
    /\ lbl_page_total = Len(pages)
    /\ page_edit_enabled = (Len(pages) > 1)
    /\ btn_open_book = TRUE
    /\ selected = Books[1]
    /\ width \in PagWidths
    /\ height \in PagHeights
    /\ avg_char_w \in PagCharWidths
    /\ line_h \in PagLineHeights
    /\ library = ShortLibrary
    /\ timers = <<>>
    /\ pc = "call"
    /\ pg_ratio \in PagRatios
    /\ pg_i = 0
    /\ pg_pages = <<>>
    /\ op = Ran("init")
    /\ burst = NoBurst
    /\ NoBatch
    /\ NoFile
    /\ NoCache

PagFrame ==
    /\ UNCHANGED <<book_info_cache, selected, library, timers, pg_ratio,
                   burst>>
    /\ UNCHANGED metaVars
    /\ UNCHANGED fbVars
    /\ UNCHANGED cacheVars

PagSession == UNCHANGED <<book_progress, current_book_path, is_reading,
                          current_full_text, lbl_progress, page_edit,
                          lbl_page_total, page_edit_enabled, btn_open_book,
                          width, height, avg_char_w, line_h>>

\* lines 772-775 and 790-794: the empty text takes the early return's
\* assignments, any other the loop's locals
PagEnter ==
    /\ pc = "call"
    /\ IF current_full_text = <<>>
       THEN /\ pages' = << <<>> >>
            /\ current_page_index' = 0
            /\ pc' = "show"
       ELSE /\ UNCHANGED <<pages, current_page_index>>
            /\ pc' = "loop"
    /\ pg_i' = 0
    /\ pg_pages' = <<>>
    /\ op' = op
    /\ PagSession
    /\ PagFrame

\* An iteration whose next slice starts one character after the split.
PagLoopSkipsOne ==
    /\ pc = "loop"
    /\ pg_i < Len(current_full_text)
    /\ \E split_pos \in {SplitPos(current_full_text, pg_i, CurrentCapacity)} :
           /\ pg_pages' = Append(pg_pages,
                                 Strip(Slice(current_full_text, pg_i,
                                             split_pos)))
           /\ pg_i' = split_pos + 1
    /\ UNCHANGED <<pc, op, pages, current_page_index>>
    /\ PagSession
    /\ PagFrame

\* lines 796-805: one iteration of the while loop
PagLoop ==
    /\ pc = "loop"
    /\ pg_i < Len(current_full_text)
    /\ \E split_pos \in {SplitPos(current_full_text, pg_i, CurrentCapacity)} :
           /\ pg_pages' = Append(pg_pages,
                                 Strip(Slice(current_full_text, pg_i,
                                             split_pos)))
           /\ pg_i' = split_pos
    /\ UNCHANGED <<pc, op, pages, current_page_index>>
    /\ PagSession
    /\ PagFrame

\* An assignment that keeps the page set the call found, when it found one.
PagAssignKeepsPrevious ==
    /\ pc = "loop"
    /\ pg_i >= Len(current_full_text)
    /\ pages' = IF pages # <<>> THEN pages
                ELSE IF pg_pages = <<>> THEN << <<>> >> ELSE pg_pages
    /\ pc' = "index"
    /\ UNCHANGED <<op, pg_i, pg_pages, current_page_index>>
    /\ PagSession
    /\ PagFrame

\* lines 807-810: the loop has ended; self.pages = pages
PagAssign ==
    /\ pc = "loop"
    /\ pg_i >= Len(current_full_text)
    /\ pages' = IF pg_pages = <<>> THEN << <<>> >> ELSE pg_pages
    /\ pc' = "index"
    /\ UNCHANGED <<op, pg_i, pg_pages, current_page_index>>
    /\ PagSession
    /\ PagFrame

\* lines 812-816: the index of the ratio
PagIndex ==
    /\ pc = "index"
    /\ current_page_index' = IndexOfRatio(pg_ratio, Len(pages))
    /\ pc' = "show"
    /\ UNCHANGED <<op, pg_i, pg_pages, pages>>
    /\ PagSession
    /\ PagFrame

\* lines 776 and 818: self.show_current_page(), and the return
PagShow ==
    /\ pc = "show"
    /\ Commit(show_current_page(Self))
    /\ pc' = "done"
    /\ op' = RanPaginate("paginate_current_text", pg_ratio, current_book_path)
    /\ UNCHANGED <<pg_i, pg_pages>>
    /\ PagFrame

PagNext == PagEnter \/ PagLoop \/ PagAssign \/ PagIndex \/ PagShow

\* The statements of a method run one after the other, to its end.
PagSpec == PagInit /\ [][PagNext]_vars /\ WF_vars(PagNext)

---------------------------------------------------------------------------
(* The title batches: MetadataWorker (src/tree_view.py) on its QThread,    *)
(* started by every scan of the library.  run() executes in the worker's   *)
(* thread; its signals reach the main thread as queued events, handled in  *)
(* order by the main event loop.  thread.wait() blocks the main thread     *)
(* without handling events.  Batch k is the worker and the thread that     *)
(* scan k created; its items are those of the tree scan k built.           *)

\* The scans of one run of the program.
MaxScans == 2

\* The .fb2 files a scan finds: the tasks of its batch.
NumTasks == 2

\* MetadataWorker.__init__ and QThread.start(): the thread is to start.
NewWorker ==
    [pc |-> "start", stopped |-> FALSE, quit |-> FALSE, idx |-> 0,
     emitted |-> <<>>, finished |-> 0, stop_at |-> -1]

\* The loop test of run(), had it not looked at the flag.
MayExtractIgnoringStop(w) == w.idx < NumTasks

\* run(), lines 216-218: there is a task left and _stopped is not set.
MayExtract(w) == w.idx < NumTasks /\ ~w.stopped

\* The loop of run(), had it never moved on from the first task.
TaskAtFirst(w) == 1

\* run(), line 216: the task the for loop is at, in task-list order.
TaskAt(w) == w.idx + 1

\* MetadataWorker.stop()
stop(w) ==
    [w EXCEPT !.stopped = TRUE,
              !.stop_at = IF w.stopped THEN w.stop_at ELSE w.idx]

Signal(name, k, task) == [signal |-> name, worker |-> k, task |-> task]

MetaFrame == UNCHANGED <<sessionVars, fbVars, cacheVars>>

\* cancel_metadata_worker up to thread.wait(), called by
\* build_tree_from_scan (line 594)
ScanCancel ==
    /\ main_pc = "loop"
    /\ Len(workers) < MaxScans
    /\ workers' =
           [k \in DOMAIN workers |->
               LET w == IF k = metadata_worker THEN stop(workers[k])
                        ELSE workers[k]
               IN  IF k = metadata_thread THEN [w EXCEPT !.quit = TRUE]
                   ELSE w]
    /\ main_pc' = "wait"
    /\ UNCHANGED <<metadata_worker, metadata_thread, events, tree, last>>
    /\ MetaFrame

\* thread.wait() has returned: the rest of cancel_metadata_worker, the tree
\* cleared and built again, and start_metadata_worker
ScanBuild ==
    /\ main_pc = "wait"
    /\ metadata_thread # 0 => workers[metadata_thread].pc = "exited"
    /\ workers' = Append(workers, NewWorker)
    /\ metadata_worker' = Len(workers) + 1
    /\ metadata_thread' = Len(workers) + 1
    /\ tree' = Len(workers) + 1
    /\ main_pc' = "loop"
    /\ UNCHANGED <<events, last>>
    /\ MetaFrame

\* The main event loop takes the next queued signal: on_title_ready;
\* on_metadata_finished and thread.quit; on_metadata_thread_finished.
HandleEvent ==
    /\ main_pc = "loop"
    /\ events # <<>>
    /\ LET e == Head(events)
       IN  /\ last' = [signal |-> e.signal, worker |-> e.worker,
                       task |-> e.task, tree |-> tree]
           /\ workers' =
                  IF e.signal = "finished"
                  THEN [workers EXCEPT ![e.worker].quit = TRUE]
                  ELSE workers
           /\ IF e.signal = "threadFinished"
              THEN metadata_thread' = 0 /\ metadata_worker' = 0
              ELSE UNCHANGED <<metadata_worker, metadata_thread>>
    /\ events' = Tail(events)
    /\ UNCHANGED <<tree, main_pc>>
    /\ MetaFrame

\* The thread has started: started calls run()
WorkerStart(k) ==
    /\ workers[k].pc = "start"
    /\ workers' = [workers EXCEPT ![k].pc = "check"]
    /\ UNCHANGED <<metadata_worker, metadata_thread, events, tree, main_pc,
                   last>>
    /\ MetaFrame

\* run(), lines 216-218 and 221: the next task is taken up, or the loop
\* ends and finished is emitted
WorkerCheck(k) ==
    /\ workers[k].pc = "check"
    /\ IF MayExtract(workers[k])
       THEN /\ workers' = [workers EXCEPT ![k].pc = "extract"]
            /\ events' = events
       ELSE /\ workers' = [workers EXCEPT
                              ![k].pc = "returned",
                              ![k].finished = @ + 1]
            /\ events' = Append(events, Signal("finished", k, 0))
    /\ UNCHANGED <<metadata_worker, metadata_thread, tree, main_pc, last>>
    /\ MetaFrame

\* run(), lines 219-220: the title is extracted and emitted
WorkerExtract(k) ==
    /\ workers[k].pc = "extract"
    /\ workers' = [workers EXCEPT
                      ![k].pc = "check",
                      ![k].idx = @ + 1,
                      ![k].emitted = Append(@, TaskAt(workers[k]))]
    /\ events' = Append(events, Signal("titleReady", k, TaskAt(workers[k])))
    /\ UNCHANGED <<metadata_worker, metadata_thread, tree, main_pc, last>>
    /\ MetaFrame

\* The thread's event loop ends once run() has returned and quit() was
\* called; the thread emits finished.
WorkerExit(k) ==
    /\ workers[k].pc = "returned"
    /\ workers[k].quit
    /\ workers' = [workers EXCEPT ![k].pc = "exited"]
    /\ events' = Append(events, Signal("threadFinished", k, 0))
    /\ UNCHANGED <<metadata_worker, metadata_thread, tree, main_pc, last>>
    /\ MetaFrame

WorkerStep(k) ==
    WorkerStart(k) \/ WorkerCheck(k) \/ WorkerExtract(k) \/ WorkerExit(k)

MetaInit ==
    /\ InitWith(ShortLibrary, [b \in {} |-> Zero])
    /\ NoFile
    /\ NoCache

MetaNext ==
    \/ ScanCancel
    \/ ScanBuild
    \/ HandleEvent
    \/ \E k \in DOMAIN workers : WorkerStart(k)
    \/ \E k \in DOMAIN workers : WorkerCheck(k)
    \/ \E k \in DOMAIN workers : WorkerExtract(k)
    \/ \E k \in DOMAIN workers : WorkerExit(k)

\* A started thread keeps running, and the main thread keeps handling its
\* events and returns from wait() once the thread has ended.
MetaSpec ==
    /\ MetaInit
    /\ [][MetaNext]_vars
    /\ \A k \in 1 .. MaxScans : WF_vars(k \in DOMAIN workers /\ WorkerStep(k))
    /\ WF_vars(HandleEvent)
    /\ WF_vars(ScanBuild)

---------------------------------------------------------------------------
(* src/fb2_utils.py: the FB2 extractor.  A file is what ET.parse(path)     *)
(* makes of it: the exception it raises, or the root element of the tree.  *)
(* An element is its tag, its attributes, its text, its children and its   *)
(* tail, as xml.etree.ElementTree keeps them.  A tag is the sequence of    *)
(* its parts, "{", the namespace and "}" before the local part of a        *)
(* qualified one.                                                          *)

\* `not x` of an Optional[str]: None and the empty string are false
Falsy(x) == x = Absent \/ x = Some(<<>>)

NoAttrib == [k \in {} |-> <<>>]

\* attrib.get(key)
AttribGet(attrib, key) ==
    IF key \in DOMAIN attrib THEN Some(attrib[key]) ELSE Absent

\* The concatenation of a sequence of sequences.
RECURSIVE Flatten(_)
Flatten(ss) == IF ss = <<>> THEN <<>> ELSE Head(ss) \o Flatten(Tail(ss))

\* The position of the first "}" of a tag, 0 when it has none.
RECURSIVE FindBrace(_, _)
FindBrace(tag, p) ==
    IF p > Len(tag) THEN 0
    ELSE IF tag[p] = "}" THEN p
    ELSE FindBrace(tag, p + 1)

\* _local_name: tag.split('}', 1)[-1]
_local_name(tag) ==
    IF FindBrace(tag, 1) = 0 THEN tag
    ELSE SubSeq(tag, FindBrace(tag, 1) + 1, Len(tag))

\* The children with the local name, in source order.
_iter_children_with_name(elem, name) ==
    SelectSeq(elem.children, LAMBDA child : _local_name(child.tag) = <<name>>)

\* The last child with the local name.
find_last_child(elem, name) ==
    LET found == _iter_children_with_name(elem, name)
    IN  IF found = <<>> THEN Absent ELSE Some(found[Len(found)])

\* _find_first_child, of an element
_find_first_child(elem, name) ==
    LET found == _iter_children_with_name(elem, name)
    IN  IF found = <<>> THEN Absent ELSE Some(found[1])

\* _find_first_child called with a node that may be None: list(None)
\* raises TypeError.  The outcome is the exception that leaves the function
\* (None: it returns) and the value returned.
find_first_child(node, name) ==
    IF node = Absent THEN [raised |-> "TypeError", value |-> Absent]
    ELSE [raised |-> None, value |-> _find_first_child(node[1], name)]

\* elem.itertext(): the text, then every child's texts and its tail
RECURSIVE itertext(_)
itertext(elem) ==
    elem.text
        \o Flatten([k \in 1 .. Len(elem.children) |->
                       itertext(elem.children[k]) \o elem.children[k].tail])

\* _elem_text, of an Optional element
_elem_text(elem) == IF elem = Absent THEN <<>> ELSE itertext(elem[1])

\* The children of an element only.
iter_children(elem) == elem.children

\* elem.iter(): the element, then its descendants, in document order
RECURSIVE iter(_)
iter(elem) ==
    <<elem>> \o Flatten([k \in 1 .. Len(elem.children) |->
                            iter(elem.children[k])])

\* sep.join(parts)
RECURSIVE Join(_, _)
Join(sep, parts) ==
    IF parts = <<>> THEN <<>>
    ELSE IF Len(parts) = 1 THEN parts[1]
    ELSE parts[1] \o sep \o Join(sep, Tail(parts))

\* The positions of a character in a string.
Where(s, ch) == {p \in 1 .. Len(s) : s[p] = ch}

\* os.path.basename(path): what follows the last "/"
basename(path) ==
    LET seps == Where(path, "/")
    IN  IF seps = {} THEN path
        ELSE SubSeq(path, (CHOOSE p \in seps : \A q \in seps : q <= p) + 1,
                    Len(path))

\* os.path.splitext(name)[0] of a name that holds no "/": the name up to
\* its last dot, when a character other than a dot stands before that dot
splitext_root(name) ==
    LET dots == Where(name, ".")
        dot == CHOOSE p \in dots : \A q \in dots : q <= p
    IN  IF dots = {} THEN name
        ELSE IF \E p \in 1 .. dot - 1 : name[p] # "."
        THEN SubSeq(name, 1, dot - 1)
        ELSE name

\* os.path.splitext(os.path.basename(path))[0]
Stem(path) == splitext_root(basename(path))

\* The exceptions ET.parse raises on a file it cannot parse or read, all of
\* them subclasses of Exception.
ParseErrors == {"ParseError", "FileNotFoundError", "UnicodeDecodeError"}

\* A clause that catches the parser's own exception only.
CaughtAsParseError(exc) == exc = "ParseError"

\* except Exception
Caught(exc) == exc \in ParseErrors

\* _find_first_child(parent, name) if parent is not None else None
ChildOf(parent, name) ==
    IF parent = Absent THEN Absent ELSE _find_first_child(parent[1], name)

\* txt = _elem_text(child).strip() of the first child with the name, kept
\* when it is not empty: the value a field is given, if any
ChildText(parent, name) ==
    LET child == ChildOf(parent, name)
        txt == Strip(_elem_text(child))
    IN  IF child # Absent /\ txt # <<>> THEN Some(txt) ELSE Absent

\* extract_fb2_title: the outcome is the exception that leaves the function
\* (None: it returns) and the value returned
extract_fb2_title(path, file) ==
    IF file.error # None
    THEN IF Caught(file.error)
         THEN [raised |-> None, value |-> Stem(path)]
         ELSE [raised |-> file.error, value |-> <<>>]
    ELSE LET description == _find_first_child(file.root, "description")
             title_info == ChildOf(description, "title-info")
             book_title == ChildOf(title_info, "book-title")
             text == Strip(_elem_text(book_title))
         IN  [raised |-> None,
              value |-> IF book_title # Absent /\ text # <<>> THEN text
                        ELSE Stem(path)]

\* BookInfo()
BookInfo ==
    [title |-> Absent, authors |-> <<>>, genres |-> <<>>,
     publisher |-> Absent, date |-> Absent, lang |-> Absent,
     description |-> Absent, cover_bytes |-> Absent, full_text |-> Absent]

\* The trimmed texts of the p elements among elems, the empty ones dropped.
Paragraphs(elems) ==
    LET ps == SelectSeq(elems, LAMBDA elem : _local_name(elem.tag) = <<"p">>)
        ts == [k \in 1 .. Len(ps) |-> Strip(itertext(ps[k]))]
    IN  SelectSeq(ts, LAMBDA t : t # <<>>)

\* "\n\n".join(paras) if paras else None
JoinedOrNone(paras) ==
    IF paras = <<>> THEN Absent ELSE Some(Join(<<"\n", "\n">>, paras))

\* lines 120-137: the names of the author children of title-info
Authors(title_info) ==
    IF title_info = Absent THEN <<>>
    ELSE LET authors == _iter_children_with_name(title_info[1], "author")
             parts(a) == ChildText(Some(a), "first-name")
                             \o ChildText(Some(a), "middle-name")
                             \o ChildText(Some(a), "last-name")
             names == [k \in 1 .. Len(authors) |->
                          Join(<<" ">>, parts(authors[k]))]
         IN  SelectSeq(names, LAMBDA name : name # <<>>)

\* lines 139-144: the texts of the genre children of title-info
Genres(title_info) ==
    IF title_info = Absent THEN <<>>
    ELSE LET genres == _iter_children_with_name(title_info[1], "genre")
             gs == [k \in 1 .. Len(genres) |-> Strip(itertext(genres[k]))]
         IN  SelectSeq(gs, LAMBDA g : g # <<>>)

\* The reference as it stands, its '#' characters kept.
KeepHash(s) == s

\* s.lstrip("#")
RECURSIVE LStripHash(_)
LStripHash(s) ==
    IF s # <<>> /\ Head(s) = "#" THEN LStripHash(Tail(s)) ELSE s

\* base64.b64decode(data): characters outside the alphabet (here A, Q, g
\* and w) are discarded, the rest is decoded by groups of four (a group
\* stands for its three bytes), and a last group that is not whole raises
\* binascii.Error
b64decode(data) ==
    LET kept == SelectSeq(data, LAMBDA ch : ch \in {"A", "Q", "g", "w"})
    IN  IF Len(kept) % 4 # 0 THEN Absent
        ELSE Some([k \in 1 .. Len(kept) \div 4 |->
                      SubSeq(kept, 4 * k - 3, 4 * k)])

XlinkHref == "{http://www.w3.org/1999/xlink}href"

\* lines 190-213: the cover
Cover(root, title_info) ==
    LET image == ChildOf(ChildOf(title_info, "coverpage"), "image")
        plain == IF image = Absent THEN Absent
                 ELSE AttribGet(image[1].attrib, "href")
        href == IF image = Absent THEN Absent
                ELSE IF Falsy(plain)
                THEN AttribGet(image[1].attrib, XlinkHref)
                ELSE plain
        cover_id == IF Falsy(href) THEN <<>> ELSE LStripHash(href[1])
        binaries ==
            SelectSeq(iter(root),
                      LAMBDA elem :
                          /\ _local_name(elem.tag) = <<"binary">>
                          /\ AttribGet(elem.attrib, "id") = Some(cover_id))
        data_base64 == Strip(itertext(binaries[1]))
    IN  IF cover_id = <<>> \/ binaries = <<>> \/ data_base64 = <<>>
        THEN Absent
        ELSE b64decode(data_base64)

\* parse_fb2_book_info: the outcome is the exception that leaves the
\* function (None: it returns) and the BookInfo returned
parse_fb2_book_info(path, file) ==
    IF file.error # None
    THEN IF Caught(file.error)
         THEN [raised |-> None,
               value |-> [BookInfo EXCEPT !.title = Some(Stem(path))]]
         ELSE [raised |-> file.error, value |-> BookInfo]
    ELSE LET root == file.root
             description == _find_first_child(root, "description")
             title_info == ChildOf(description, "title-info")
             publish_info == ChildOf(description, "publish-info")
             title == ChildText(title_info, "book-title")
             year == ChildText(publish_info, "year")
             annotation == ChildOf(title_info, "annotation")
             bodies == _iter_children_with_name(root, "body")
         IN  [raised |-> None,
              value |->
                  [title |-> IF Falsy(title) THEN Some(Stem(path)) ELSE title,
                   authors |-> Authors(title_info),
                   genres |-> Genres(title_info),
                   publisher |-> ChildText(publish_info, "publisher"),
                   date |-> IF Falsy(year) THEN ChildText(title_info, "date")
                            ELSE year,
                   lang |-> ChildText(title_info, "lang"),
                   description |->
                       IF annotation = Absent THEN Absent
                       ELSE JoinedOrNone(Paragraphs(iter(annotation[1]))),
                   cover_bytes |-> Cover(root, title_info),
                   full_text |->
                       JoinedOrNone(
                           Flatten([k \in 1 .. Len(bodies) |->
                                       Paragraphs(iter(bodies[k]))]))]]

---------------------------------------------------------------------------
(* The files the extractor is applied to: every shape of the description   *)
(* block and of the bodies, with and without a namespace, and the files    *)
(* ET.parse fails on.                                                      *)

\* An element with no attribute and no tail.
El(name, text, children) ==
    [tag |-> <<name>>, attrib |-> NoAttrib, text |-> text,
     children |-> children, tail |-> <<>>]

\* A p element holding the text, followed by a line break.
Para(text) == [El("p", text, <<>>) EXCEPT !.tail = <<"\n">>]

\* The element and its descendants in the FictionBook namespace.
RECURSIVE InNamespace(_)
InNamespace(elem) ==
    [elem EXCEPT
        !.tag = <<"{", "http://www.gribuser.ru/xml/fictionbook/2.0", "}">>
                    \o elem.tag,
        !.children = [k \in 1 .. Len(elem.children) |->
                         InNamespace(elem.children[k])]]

\* book-title: none, blank, padded, or with inline markup
BookTitles ==
    {<<>>,
     <<El("book-title", <<" ", "\n">>, <<>>)>>,
     <<El("book-title", <<" ", "T", "\n">>, <<>>)>>,
     <<El("book-title", <<"\n">>,
          <<[El("emphasis", <<"T">>, <<>>) EXCEPT !.tail = <<"i", " ">>]>>),
       El("book-title", <<"U">>, <<>>)>>}

\* What title-info holds besides the title: an author, a blank and a named
\* genre, the language, an annotation and the reference to the cover.
Details ==
    <<El("author", <<>>,
         <<El("first-name", <<"A">>, <<>>), El("last-name", <<" ", "B">>, <<>>)>>),
      El("genre", <<" ">>, <<>>),
      El("genre", <<"g">>, <<>>),
      El("lang", <<"e", "n">>, <<>>),
      El("annotation", <<>>, <<Para(<<"D">>), Para(<<" ">>)>>),
      El("coverpage", <<>>,
         <<[El("image", <<>>, <<>>) EXCEPT !.attrib = [href |-> <<"#", "c">>]]>>)>>

TitleInfos ==
    {<<>>}
        \cup {<<El("title-info", <<"\n">>, t)>> : t \in BookTitles}
        \cup {<<El("title-info", <<>>, t \o Details)>> : t \in BookTitles}

\* description: none, one, or an empty one before one that holds the title
Descriptions ==
    {<<>>}
        \cup {<<El("description", <<>>, ti)>> : ti \in TitleInfos}
        \cup {<<El("description", <<>>, <<>>),
                El("description", <<>>,
                   <<El("title-info", <<>>,
                        <<El("book-title", <<"T">>, <<>>)>>)>>)>>}

\* The binary elements of a file: the cover and one of another id.
Binaries ==
    <<[El("binary", <<"Q", "Q", "\n">>, <<>>) EXCEPT !.attrib = [id |-> <<"d">>]],
      [El("binary", <<"\n", "A", "Q", "g", "w">>, <<>>)
           EXCEPT !.attrib = [id |-> <<"c">>]]>>

\* The bodies of a file: none; two bodies of two paragraphs; a body whose
\* paragraphs lie in a section, one of them blank, one with inline markup
\* and one inside another; a body of blank paragraphs only; a body that is
\* no child of the root.
BodySets ==
    {<<>>,
     <<El("body", <<"\n">>, <<Para(<<"A">>), Para(<<"B">>)>>),
       El("body", <<>>, <<Para(<<"C">>), Para(<<"D">>)>>)>>,
     <<El("body", <<>>,
          <<El("section", <<"x">>,
               <<Para(<<" ", "A", " ">>),
                 Para(<<" ", "\n">>),
                 El("p", <<"B">>,
                    <<[El("strong", <<"C">>, <<>>) EXCEPT !.tail = <<" ">>]>>),
                 El("cite", <<>>, <<El("p", <<"D">>, <<Para(<<"E">>)>>)>>)>>)>>)>>,
     <<El("body", <<>>, <<Para(<<>>), Para(<<"\n">>)>>)>>,
     <<El("section", <<>>, <<El("body", <<>>, <<Para(<<"A">>)>>)>>)>>}

Roots ==
    {El("FictionBook", <<"\n">>, d \o b \o Binaries) :
         d \in Descriptions, b \in BodySets}

\* The files of every cover reference and every set of binary elements.
\* What title-info holds of the cover: nothing; a coverpage with no image;
\* an image with no reference; the references #c, ##c, # and c; the
\* reference in the XLink attribute, alone and beside an empty href.  The
\* binary elements, as the children of the root and those of a section of
\* the body: none; one of the id c; one of another id; a blank one, one
\* that does not decode, or one of other data before that of the id c; one
\* inside the body before that of the root; one of the id #c before it;
\* one of characters outside the alphabet.
CoverRoots ==
    LET Bin(id, text) ==
            [El("binary", text, <<>>) EXCEPT !.attrib = [id |-> id]]
        Image(attrib) == [El("image", <<>>, <<>>) EXCEPT !.attrib = attrib]
        CoverPages ==
            {<<>>, <<El("coverpage", <<>>, <<>>)>>}
                \cup {<<El("coverpage", <<"\n">>, <<Image(a)>>)>> :
                         a \in {NoAttrib,
                                [href |-> <<"#", "c">>],
                                [href |-> <<"#", "#", "c">>],
                                [href |-> <<"#">>],
                                [href |-> <<"c">>],
                                XlinkHref :> <<"#", "c">>,
                                [href |-> <<>>] @@ (XlinkHref :> <<"#", "c">>)}}
        BinarySets ==
            {[top |-> <<>>, nested |-> <<>>],
             [top |-> <<Bin(<<"c">>, <<"\n", "A", "Q", "g", "w">>)>>, nested |-> <<>>],
             [top |-> <<Bin(<<"d">>, <<"A", "Q", "g", "w">>)>>, nested |-> <<>>],
             [top |-> <<Bin(<<"c">>, <<" ", "\n">>),
                        Bin(<<"c">>, <<"A", "Q", "g", "w">>)>>, nested |-> <<>>],
             [top |-> <<Bin(<<"c">>, <<"Q", "Q">>),
                        Bin(<<"c">>, <<"A", "Q", "g", "w">>)>>, nested |-> <<>>],
             [top |-> <<Bin(<<"c">>, <<"w", "g", "Q", "A">>),
                        Bin(<<"c">>, <<"A", "Q", "g", "w">>)>>, nested |-> <<>>],
             [top |-> <<Bin(<<"c">>, <<"A", "Q", "g", "w">>)>>,
              nested |-> <<Bin(<<"c">>, <<"w", "g", "Q", "A">>)>>],
             [top |-> <<Bin(<<"#", "c">>, <<"w", "g", "Q", "A">>),
                        Bin(<<"c">>, <<"A", "Q", "g", "w">>)>>, nested |-> <<>>],
             [top |-> <<Bin(<<"c">>, <<"!", "!", "!", "!">>)>>, nested |-> <<>>]}
    IN  {El("FictionBook", <<>>,
            <<El("description", <<>>,
                 <<El("title-info", <<>>,
                      <<El("book-title", <<"T">>, <<>>)>> \o c)>>),
              El("body", <<>>,
                 <<El("section", <<>>, <<Para(<<"A">>)>> \o b.nested)>>)>>
                \o b.top) :
             c \in CoverPages, b \in BinarySets}

Fb2Files ==
    {[error |-> e, root |-> Absent] : e \in ParseErrors}
        \cup {[error |-> None, root |-> r] : r \in Roots}
        \cup {[error |-> None, root |-> InNamespace(r)] : r \in Roots}
        \cup {[error |-> None, root |-> r] : r \in CoverRoots}

\* Paths of .fb2 files: in a folder, with a second dot, with no name before
\* the extension, in a folder whose name holds a dot.
Fb2Paths ==
    {<<"d", "/", "a", ".", "f", "b", "2">>,
     <<"a", ".", "b", ".", "F", "B", "2">>,
     <<"d", "/", ".", "f", "b", "2">>,
     <<"d", ".", "e", "/", "c", ".", "f", "b", "2">>}

Fb2Frame ==
    UNCHANGED <<sessionVars, metaVars, cacheVars, fb2_path, fb2_file>>

\* MetadataWorker.run, line 219: title = extract_fb2_title(path)
ExtractTitle ==
    /\ fb2_title = Absent
    /\ fb2_title' = Some(extract_fb2_title(fb2_path, fb2_file))
    /\ UNCHANGED <<fb2_info, fb2_child>>
    /\ Fb2Frame

\* open_current_book, line 891: info = parse_fb2_book_info(path)
ParseBookInfo ==
    /\ fb2_info = Absent
    /\ fb2_info' = Some(parse_fb2_book_info(fb2_path, fb2_file))
    /\ UNCHANGED <<fb2_title, fb2_child>>
    /\ Fb2Frame

\* _find_first_child(node, name), of None, the root of the file or the
\* first child of the root, and a name
FindFirstChild ==
    LET Nodes ==
            {Absent}
                \cup (IF fb2_file.error # None THEN {}
                      ELSE {Some(fb2_file.root)}
                               \cup {Some(fb2_file.root.children[k]) :
                                        k \in {1} \cap
                                            DOMAIN fb2_file.root.children})
        ChildNames == {"description", "title-info", "body", "epigraph"}
    IN  /\ fb2_child = Absent
        /\ \E node \in Nodes, name \in ChildNames :
               fb2_child' = Some([node |-> node, name |-> name,
                                  outcome |-> find_first_child(node, name)])
        /\ UNCHANGED <<fb2_title, fb2_info>>
        /\ Fb2Frame

Fb2Init ==
    /\ InitWith(ShortLibrary, [b \in {} |-> Zero])
    /\ fb2_path \in Fb2Paths
    /\ fb2_file \in Fb2Files
    /\ fb2_title = Absent
    /\ fb2_info = Absent
    /\ fb2_child = Absent
    /\ NoCache

Fb2Next == ExtractTitle \/ ParseBookInfo \/ FindFirstChild

Fb2Spec == Fb2Init /\ [][Fb2Next]_vars

---------------------------------------------------------------------------
(* The cache of the tree and of the reading progress: save_cache and       *)
(* load_cache of src/main.py.  A path is a string, "/" its separator; the  *)
(* functions of os.path are those of posixpath.  The tree is the sequence  *)
(* of its items in the order they were created, each with the index of    *)
(* its parent, 0 for the top-level item; the children of an item are in    *)
(* the order of their indices.                                             *)

\* s.split(sep), sep one character
Split(s, sep) ==
    LET at == Where(s, sep)
        cut(k) == IF k = 0 THEN 0
                  ELSE IF k > Cardinality(at) THEN Len(s) + 1
                  ELSE CHOOSE p \in at : Cardinality({q \in at : q < p}) = k - 1
    IN  [k \in 1 .. Cardinality(at) + 1 |->
            SubSeq(s, cut(k - 1) + 1, cut(k) - 1)]

\* os.path.join(a, b)
join2(a, b) ==
    IF b # <<>> /\ Head(b) = "/" THEN b
    ELSE IF a = <<>> \/ a[Len(a)] = "/" THEN a \o b
    ELSE a \o <<"/">> \o b

\* os.path.join(a, *parts)
RECURSIVE PathJoin(_, _)
PathJoin(a, parts) ==
    IF parts = <<>> THEN a ELSE PathJoin(join2(a, Head(parts)), Tail(parts))

\* os.path.normpath: the loop over the components
RECURSIVE NormComps(_, _, _)
NormComps(comps, new_comps, initial_slashes) ==
    IF comps = <<>> THEN new_comps
    ELSE LET comp == Head(comps)
             next ==
                 IF comp = <<>> \/ comp = <<".">> THEN new_comps
                 ELSE IF \/ comp # <<".", ".">>
                         \/ initial_slashes = 0 /\ new_comps = <<>>
                         \/ /\ new_comps # <<>>
                            /\ new_comps[Len(new_comps)] = <<".", ".">>
                 THEN Append(new_comps, comp)
                 ELSE IF new_comps # <<>>
                 THEN SubSeq(new_comps, 1, Len(new_comps) - 1)
                 ELSE new_comps
         IN  NormComps(Tail(comps), next, initial_slashes)

\* os.path.normpath(path)
normpath(path) ==
    LET slashes(n) == Len(path) >= n /\ \A k \in 1 .. n : path[k] = "/"
        initial_slashes == IF ~slashes(1) THEN 0
                           ELSE IF slashes(2) /\ ~slashes(3) THEN 2
                           ELSE 1
        body == Join(<<"/">>,
                     NormComps(Split(path, "/"), <<>>, initial_slashes))
        whole == [k \in 1 .. initial_slashes |-> "/"] \o body
    IN  IF whole = <<>> THEN <<".">> ELSE whole

\* os.path.abspath(path), os.getcwd() being /h
abspath(path) ==
    normpath(IF path # <<>> /\ Head(path) = "/" THEN path
             ELSE join2(<<"/", "h">>, path))

\* The file name in place of the path from start.
relpath_is_basename(path, start) == basename(path)

\* os.path.relpath(path, start)
relpath(path, start) ==
    LET start_list == SelectSeq(Split(abspath(start), "/"),
                                LAMBDA x : x # <<>>)
        path_list == SelectSeq(Split(abspath(path), "/"),
                               LAMBDA x : x # <<>>)
        common == {n \in 0 .. Min(Len(start_list), Len(path_list)) :
                      SubSeq(start_list, 1, n) = SubSeq(path_list, 1, n)}
        i == CHOOSE n \in common : \A m \in common : m <= n
        rel_list == [k \in 1 .. Len(start_list) - i |-> <<".", ".">>]
                        \o SubSeq(path_list, i + 1, Len(path_list))
    IN  IF rel_list = <<>> THEN <<".">> ELSE Join(<<"/">>, rel_list)

\* QTreeWidgetItem([text]) with setData(0, UserRole, path), added to the
\* item of index parent
Item(text, path, parent, dir) ==
    [text |-> text, path |-> path, parent |-> parent, dir |-> dir]

\* save_cache, traverse(item): the item k, then what traverse gives of
\* each of its children, in their order
RECURSIVE traverse(_, _)
traverse(items, k) ==
    LET children == SelectSeq([j \in 1 .. Len(items) |-> j],
                              LAMBDA j : items[j].parent = k)
    IN  <<k>> \o Flatten([j \in 1 .. Len(children) |->
                             traverse(items, children[j])])

\* save_cache: what is written to the cache file, None when it returns
\* before writing; on_disk are the paths os.path.isfile holds of
save_cache(root, items, progress, on_disk) ==
    IF root = <<>> \/ items = <<>> THEN Absent
    ELSE LET recorded ==
                 SelectSeq(traverse(items, 1),
                           LAMBDA k : items[k].path \in on_disk)
         IN  Some([root_path |-> root,
                   books |->
                       [n \in 1 .. Len(recorded) |->
                           LET item == items[recorded[n]]
                           IN  [rel_path |-> relpath(item.path, root),
                                title |-> item.text,
                                progress |->
                                    Get(progress, abspath(item.path))]]])

\* load_cache, lines 482-492: the items of the folders of an entry, those
\* of item_map taken from it and the others made, from the n-th on
RECURSIVE AddFolders(_, _, _, _, _, _)
AddFolders(items, item_map, folders, n, current_item, full_dir_path) ==
    IF n > Len(folders)
    THEN [items |-> items, item_map |-> item_map,
          current_item |-> current_item]
    ELSE LET current_key == SubSeq(folders, 1, n)
             path == join2(full_dir_path, folders[n])
         IN  IF current_key \in DOMAIN item_map
             THEN AddFolders(items, item_map, folders, n + 1,
                             item_map[current_key], path)
             ELSE AddFolders(
                      Append(items,
                             Item(folders[n], path, current_item, TRUE)),
                      (current_key :> Len(items) + 1) @@ item_map,
                      folders, n + 1, Len(items) + 1, path)

\* load_cache, lines 469-504: the entries from the n-th on
RECURSIVE LoadEntries(_, _, _, _, _, _)
LoadEntries(root_path, books, n, items, item_map, progress) ==
    IF n > Len(books) THEN [items |-> items, progress |-> progress]
    ELSE LET entry == books[n]
             title == IF entry.title = <<>> THEN basename(entry.rel_path)
                      ELSE entry.title
             parts == Split(entry.rel_path, "/")
             folders == SubSeq(parts, 1, Len(parts) - 1)
             filename == parts[Len(parts)]
             made == AddFolders(items, item_map, folders, 1, 1, root_path)
             full_file_path ==
                 PathJoin(root_path, folders \o <<filename>>)
         IN  IF entry.rel_path = <<>>
             THEN LoadEntries(root_path, books, n + 1, items, item_map,
                              progress)
             ELSE LoadEntries(
                      root_path, books, n + 1,
                      Append(made.items,
                             Item(title, full_file_path, made.current_item,
                                  FALSE)),
                      made.item_map,
                      Put(progress, abspath(full_file_path),
                          entry.progress))

\* load_cache of the cache file: whether it returns True, and the tree and
\* the progress it leaves, from the empty map (<<>>) on; on_disk are the paths os.path.isdir holds of
load_cache_file(file, on_disk) ==
    IF file = Absent \/ file[1].root_path = <<>>
           \/ file[1].root_path \notin on_disk
    THEN [ok |-> FALSE]
    ELSE LET data == file[1]
             loaded ==
                 LoadEntries(data.root_path, data.books, 1,
                             <<Item(basename(data.root_path), data.root_path,
                                    0, TRUE)>>,
                             <<>> :> 1, <<>>)
         IN  [ok |-> TRUE, root_path |-> data.root_path,
              items |-> loaded.items, progress |-> loaded.progress]

\* build_tree_from_scan of a root that holds the folder d with the folder
\* e (the book b.fb2) and the book a.fb2, and the book f.fb2: the folders
\* of a folder come before its files.
ScannedTree(root) ==
    LET d == join2(root, <<"d">>)
        e == join2(d, <<"e">>)
        FileB == <<"b", ".", "f", "b", "2">>
        FileA == <<"a", ".", "f", "b", "2">>
        FileF == <<"f", ".", "f", "b", "2">>
    IN  <<Item(basename(root), root, 0, TRUE),
          Item(<<"d">>, d, 1, TRUE),
          Item(<<"e">>, e, 2, TRUE),
          Item(FileB, join2(e, FileB), 3, FALSE),
          Item(FileA, join2(d, FileA), 2, FALSE),
          Item(FileF, join2(root, FileF), 1, FALSE)>>

\* The files that may vanish from the disk.
MaxRemoved == 1

\* The first start, no cache file yet: the user chooses a folder, /r or /,
\* and build_tree_from_scan makes the tree and the tasks of the titles,
\* one for each book item.
CacheInit ==
    /\ InitWith(ShortLibrary, [b \in {} |-> Zero])
    /\ NoFile
    /\ \E root \in {<<"/", "r">>, <<"/">>} :
           /\ current_root_path = root
           /\ book_tree = ScannedTree(root)
           /\ files = {ScannedTree(root)[k].path : k \in 4 .. 6}
           /\ dirs = {ScannedTree(root)[k].path : k \in 1 .. 3}
    /\ metadata_tasks = SelectSeq([j \in 1 .. Len(book_tree) |-> j],
                                  LAMBDA j : ~book_tree[j].dir)
    /\ path_progress = <<>>
    /\ cache_file = Absent
    /\ removed = 0
    /\ running = TRUE

\* on_title_ready, of the first task left: extract_fb2_title has given
\* the title T or the name of the file without its extension
TitleReady ==
    /\ running
    /\ metadata_tasks # <<>>
    /\ \E title \in {<<"T">>, Stem(book_tree[Head(metadata_tasks)].path)} :
           book_tree' = [book_tree EXCEPT
                            ![Head(metadata_tasks)].text = title]
    /\ metadata_tasks' = Tail(metadata_tasks)
    /\ UNCHANGED <<current_root_path, path_progress, cache_file, files,
                   dirs, removed, running>>
    /\ UNCHANGED <<sessionVars, metaVars, fbVars>>

\* update_page_and_progress_labels, line 871, of a book of the tree read
\* to its middle
WriteProgress ==
    /\ running
    /\ \E k \in 1 .. Len(book_tree), ratio \in {Ratio(1, 2)} :
           /\ ~book_tree[k].dir
           /\ Get(path_progress, abspath(book_tree[k].path)) # ratio
           /\ path_progress' =
                  Put(path_progress, abspath(book_tree[k].path), ratio)
    /\ UNCHANGED <<current_root_path, book_tree, metadata_tasks, cache_file,
                   files, dirs, removed, running>>
    /\ UNCHANGED <<sessionVars, metaVars, fbVars>>

\* A file of the library is deleted.
RemoveFile ==
    /\ removed < MaxRemoved
    /\ \E f \in files : files' = files \ {f}
    /\ removed' = removed + 1
    /\ UNCHANGED <<current_root_path, book_tree, metadata_tasks,
                   path_progress, cache_file, dirs, running>>
    /\ UNCHANGED <<sessionVars, metaVars, fbVars>>

\* The root folder is deleted, with all it holds.
RemoveRoot ==
    /\ ~running
    /\ dirs # {}
    /\ files' = {}
    /\ dirs' = {}
    /\ UNCHANGED <<current_root_path, book_tree, metadata_tasks,
                   path_progress, cache_file, removed, running>>
    /\ UNCHANGED <<sessionVars, metaVars, fbVars>>

\* closeEvent: save_cache, and the process ends
Close ==
    /\ running
    /\ running' = FALSE
    /\ LET written == save_cache(current_root_path, book_tree,
                                 path_progress, files)
       IN  cache_file' = IF written = Absent THEN cache_file ELSE written
    /\ UNCHANGED <<current_root_path, book_tree, metadata_tasks,
                   path_progress, files, dirs, removed>>
    /\ UNCHANGED <<sessionVars, metaVars, fbVars>>

\* MainWindow.__init__, lines 312-318: load_cache; when it returns False
\* the user is asked for a folder and chooses none
Start ==
    /\ ~running
    /\ running' = TRUE
    /\ LET loaded == load_cache_file(cache_file, dirs)
       IN  IF loaded.ok
           THEN /\ current_root_path' = loaded.root_path
                /\ book_tree' = loaded.items
                /\ path_progress' = loaded.progress
           ELSE /\ current_root_path' = <<>>
                /\ book_tree' = <<>>
                /\ path_progress' = <<>>
    /\ metadata_tasks' = <<>>
    /\ UNCHANGED <<cache_file, files, dirs, removed>>
    /\ UNCHANGED <<sessionVars, metaVars, fbVars>>

CacheNext ==
    TitleReady \/ WriteProgress \/ RemoveFile \/ RemoveRoot \/ Close \/ Start

CacheSpec == CacheInit /\ [][CacheNext]_vars

---------------------------------------------------------------------------
(* The claims.                                                             *)

\* The text has run out: pagination returned, by either way.
PagDone == pc = "done"

\* C1: for every text and every integer width, height, average character
\* width and line height, zero and negative ones included,
\* paginate_current_text terminates: the capacity is at least 20 * 3, every
\* iteration of the loop leaves with an index strictly greater than the one
\* it entered with and no greater than the length of the text, and the call
\* returns.
C1_PaginateTerminates ==
    /\ [](CurrentCapacity >= MinCharsPerLine * MinLinesPerPage)
    /\ [][pc = "loop" /\ pc' = "loop"
              => pg_i' > pg_i /\ pg_i' <= Len(current_full_text)]_vars
    /\ <>PagDone

\* A text of several pages is paginated to its end in a viewport that
\* reports a negative width and a zero height.
C1_Witness ==
    /\ PagDone
    /\ width < 0
    /\ height = 0
    /\ avg_char_w = 0
    /\ line_h < 0
    /\ Len(pages) > 1

\* The ratio the call was given, clamped to [0, 1], as numerator and
\* denominator.
PagClamped ==
    IF pg_ratio[1] < 0 THEN <<0, 1>>
    ELSE IF pg_ratio[1] > pg_ratio[2] THEN <<1, 1>>
    ELSE pg_ratio

\* k is the integer nearest to x[1] / x[2] * m, the even one of two
\* equally near.
NearestTieEven(k, x, m) ==
    LET twice == Abs(2 * x[2] * k - 2 * x[1] * m)
    IN  twice < x[2] \/ (twice = x[2] /\ k % 2 = 0)

\* C3 (amended): pagination maps the ratio to the index
\* round(ratio * (pageCount - 1)) of the ratio clamped to [0, 1], rounding
\* a tie to the even index, within [0, pageCount - 1], and to index 0 when
\* pageCount is 1; ratio 0.5 on 10 pages gives index 4 and on 20 pages
\* index 10.
C3_RatioToIndex ==
    PagDone =>
        LET P == Len(pages)
        IN  /\ P >= 1
            /\ P = 1 => current_page_index = 0
            /\ P > 1 =>
                /\ current_page_index \in 0 .. P - 1
                /\ NearestTieEven(current_page_index, PagClamped, P - 1)
            /\ pg_ratio = Ratio(1, 2) /\ P = 10 => current_page_index = 4
            /\ pg_ratio = Ratio(1, 2) /\ P = 20 => current_page_index = 10

\* Ratio 0.5 has been mapped onto a set of 10 pages: index 4.
C3_Witness ==
    /\ PagDone
    /\ pg_ratio = Ratio(1, 2)
    /\ Len(pages) = 10
    /\ current_page_index = 4

\* C3 as stated: the index is round(ratio * (pageCount - 1)) with a tie
\* rounded up, clamped to [0, pageCount - 1], and 0 when pageCount is 1;
\* ratio 0.5 on 10 pages gives index 5 and on 20 pages index 10.
C3_RoundHalfUp ==
    PagDone =>
        LET P == Len(pages)
            up == RoundHalfUp(pg_ratio[1] * (P - 1), pg_ratio[2])
        IN  /\ P = 1 => current_page_index = 0
            /\ P > 1 => current_page_index = Max(0, Min(up, P - 1))
            /\ pg_ratio = Ratio(1, 2) /\ P = 10 => current_page_index = 5
            /\ pg_ratio = Ratio(1, 2) /\ P = 20 => current_page_index = 10

\* The handler that ran last called paginate_current_text.
Paginated == op.ratio # NoRatio

\* C2 (amended): the page list is empty, with index 0, from construction or
\* a rescan until the first pagination that follows; a list that is not
\* empty keeps its index within [0, length - 1] under every operation and
\* is emptied by a rescan only; every pagination leaves at least one page,
\* and the pagination of an empty text exactly one page, the empty string,
\* with index 0.
C2_PageSetInRange ==
    /\ [](/\ pages = <<>> => current_page_index = 0
          /\ pages # <<>> => current_page_index \in 0 .. Len(pages) - 1
          /\ Paginated => Len(pages) >= 1
          /\ Paginated /\ current_full_text = <<>> =>
                 pages = << <<>> >> /\ current_page_index = 0)
    /\ [][pages # <<>> /\ pages' = <<>>
              => op'.name = "build_tree_from_scan"]_vars

\* The deferred pagination of a book has run after a rescan dropped the
\* text: one empty page.
C2_Witness ==
    /\ Paginated
    /\ current_full_text = <<>>
    /\ pages = << <<>> >>
    /\ current_page_index = 0

\* C2 as stated: in every reachable state the page list has at least one
\* page and the index lies within [0, length - 1].
C2_AlwaysOnePage ==
    /\ Len(pages) >= 1
    /\ current_page_index \in 0 .. Len(pages) - 1

\* The progress stored for the book of the session s.
Stored(s) == Get(s.book_progress, s.current_book_path)

\* The step is a resize of the reader that paginated again.
ResizePaginated == op'.name = "on_reader_resized" /\ op'.ratio # NoRatio

\* C4: a session positioned by ratio 0.5 on 10 pages that a resize, the
\* very next operation, paginates again into 20 pages lands at index
\* round(0.5 * 19) = 10.
C4_ResizeUsesLastRatio ==
    [][(/\ is_reading
        /\ Paginated
        /\ op.ratio = Ratio(1, 2)
        /\ Len(pages) = 10
        /\ ResizePaginated
        /\ Len(pages') = 20)
           => current_page_index' = 10]_vars

\* C5: with the text fixed and no navigation in between, a resize from
\* capacity c1 to c2 followed by a resize back to c1 returns the page index
\* to the one before the first of the two resizes.
C5_ResizeRoundTrip ==
    [][(/\ burst.runs >= 2
        /\ ResizePaginated
        /\ CurrentCapacity' = burst.from)
           => current_page_index' = burst.before]_vars

\* C6: in reading mode with P pages, go_to_page(k) sets the index to
\* min(max(k, 0), P - 1) and the stored ratio of the book to
\* index / (P - 1), 0.0 when P = 1, for every integer k; go_next_page on the
\* last page and go_prev_page on the first leave the index and the stored
\* ratio as they were.
C6_GoToPageClamps ==
    /\ [](is_reading /\ pages # <<>> =>
            \A k \in -2 .. Len(pages) + 1 :
                LET P == Len(pages)
                    t == go_to_page(Self, k)
                    index == Min(Max(k, 0), P - 1)
                IN  /\ t.current_page_index = index
                    /\ Stored(t) = IF P = 1 THEN Zero
                                   ELSE Ratio(index, P - 1))
    /\ [][(/\ is_reading
           /\ pages # <<>>
           /\ \/ /\ op'.name = "go_next_page"
                 /\ current_page_index = Len(pages) - 1
              \/ /\ op'.name = "go_prev_page"
                 /\ current_page_index = 0)
              => /\ current_page_index' = current_page_index
                 /\ Stored(Self)' = Stored(Self)]_vars

\* C7: whenever the page list of the book being read has exactly one page,
\* the progress shown and stored for the book is 0.0, and go_to_page with
\* any index, go_next_page and go_prev_page leave the index at 0 and the
\* ratio at 0.0.
C7_SinglePageRatioZero ==
    is_reading /\ Len(pages) = 1 =>
        /\ Stored(Self) = Zero
        /\ lbl_progress = 0
        /\ \A t \in {go_to_page(Self, k) : k \in -2 .. 2}
                    \cup {go_next_page(Self), go_prev_page(Self)} :
               t.current_page_index = 0 /\ Stored(t) = Zero

\* C8: every ratio of the progress map, those restored from the cache file
\* included, lies in [0.0, 1.0].
C8_RatiosInUnitRange ==
    \A path \in DOMAIN book_progress :
        RLeq(Zero, book_progress[path]) /\ RLeq(book_progress[path], One)

\* C9: the deferred pagination that open_current_book queued for a book
\* never runs once another book is the current one.
C9_NoStalePagination ==
    op.name = "singleShot" => op.book = current_book_path

\* C10: in a burst of consecutive resizes of the reader only one
\* pagination runs, that of the last size.
C10_OnePaginationPerBurst == burst.runs <= 1

\* run() of batch k is between its first loop test and its return.
Extracting(k) == workers[k].pc \in {"check", "extract"}

\* C11: when a scan starts a new batch every earlier worker has been
\* stopped or has returned, at any time at most one batch is extracting
\* titles, and no title of a batch is applied to the tree once a later scan
\* has built the tree anew.
C11_ScanSupersedesBatch ==
    /\ [][Len(workers') > Len(workers) =>
              \A k \in DOMAIN workers :
                  workers[k].stopped \/ ~Extracting(k)]_vars
    /\ [](Cardinality({k \in DOMAIN workers : Extracting(k)}) <= 1)
    /\ [](last.signal = "titleReady" => last.worker = last.tree)

\* run() of batch k has returned.
Returned(k) == workers[k].pc \in {"returned", "exited"}

\* C12: once stop() has been called on a worker, the worker takes up no
\* further task: at most the extraction in progress at the call completes
\* and is emitted, and the worker then emits finished, once, leaving the
\* remaining tasks.
C12_StopStartsNoExtraction ==
    /\ [][\A k \in DOMAIN workers :
              workers[k].stopped /\ workers'[k].pc = "extract"
                  => workers[k].pc = "extract"]_vars
    /\ [](\A k \in DOMAIN workers :
              workers[k].stopped =>
                  /\ workers[k].idx <= workers[k].stop_at + 1
                  /\ Len(workers[k].emitted) <= workers[k].stop_at + 1
                  /\ Returned(k) => workers[k].finished = 1)
    /\ \A k \in 1 .. MaxScans :
           (k \in DOMAIN workers /\ workers[k].stopped)
               ~> (k \in DOMAIN workers /\ Returned(k))

\* A worker stopped in the middle of its first extraction has emitted that
\* title and returned, the second task left.
C12_Witness ==
    \E k \in DOMAIN workers :
        /\ workers[k].stopped
        /\ workers[k].stop_at = 0
        /\ workers[k].emitted = <<1>>
        /\ workers[k].pc = "returned"
        /\ workers[k].idx < NumTasks

\* i comes before j in the event queue, both of one batch.
Queued(i, j) ==
    /\ i \in DOMAIN events
    /\ j \in DOMAIN events
    /\ i < j
    /\ events[i].worker = events[j].worker

\* C13: the titles a worker has emitted are the tasks 1 to idx, one per
\* completed task and in task-list order, a prefix of the task list and the
\* whole list once run() has returned without stop(); finished is emitted
\* exactly once, after the last title; an emitted title is never emitted
\* again or taken back, and the main thread is handed the signals of a
\* batch in the order of their emission.
C13_TitlesArePrefix ==
    /\ [](\A k \in DOMAIN workers :
              /\ workers[k].idx \in 0 .. NumTasks
              /\ workers[k].emitted = [t \in 1 .. workers[k].idx |-> t]
              /\ workers[k].finished = IF Returned(k) THEN 1 ELSE 0
              /\ Returned(k) /\ ~workers[k].stopped
                     => workers[k].idx = NumTasks)
    /\ [](\A i, j \in DOMAIN events :
              Queued(i, j) =>
                  /\ events[i].signal = "titleReady"
                         => events[j].signal # "titleReady"
                                \/ events[i].task < events[j].task
                  /\ events[i].signal = "finished"
                         => events[j].signal = "threadFinished"
                  /\ events[i].signal # "threadFinished")
    /\ [][\A k \in DOMAIN workers :
              /\ Len(workers'[k].emitted) >= Len(workers[k].emitted)
              /\ SubSeq(workers'[k].emitted, 1, Len(workers[k].emitted))
                     = workers[k].emitted
              /\ workers[k].finished = 1
                     => workers'[k].emitted = workers[k].emitted]_vars
    /\ \A k \in 1 .. MaxScans :
           (k \in DOMAIN workers)
               ~> (k \in DOMAIN workers /\ workers[k].finished = 1)

\* One worker returned with every title emitted and never stopped, another
\* was stopped after its first title.
C13_Witness ==
    \E k, n \in DOMAIN workers :
        /\ Returned(k)
        /\ ~workers[k].stopped
        /\ workers[k].emitted = [t \in 1 .. NumTasks |-> t]
        /\ Returned(n)
        /\ workers[n].stopped
        /\ workers[n].emitted = <<1>>

\* The text 'word ' repeated 50 times, but for its letters.
FiftyWords == TextOf(2 * LenMedium - 10, 5, 0)

\* The window an iteration from i searches, as positions of the source:
\* [i + floor(0.8 * capacity), end), both ends capped by the length.
Window(i) ==
    LET n == Len(current_full_text)
    IN  Min(n, pg_i + (4 * CurrentCapacity) \div 5)
            .. Min(pg_i + CurrentCapacity, n) - 1

\* The characters sep mark the positions of the source where it holds one.
At(sep) == {p \in 0 .. Len(current_full_text) - 1 :
                current_full_text[p + 1] \in sep}

\* Position p of the source lies inside a run free of the characters sep:
\* neither the character before it nor the one at it is one of them.
InsideRun(p, sep) ==
    /\ 0 < p
    /\ p < Len(current_full_text)
    /\ p - 1 \notin At(sep)
    /\ p \notin At(sep)

\* C14 (amended): an iteration cuts at the last space of its search window
\* [i + floor(0.8 * capacity), end) when the window holds one, and at end
\* otherwise; so a page boundary falls inside a run free of spaces only
\* when that run covers the whole window (other whitespace is not looked
\* for).  For 'word ' repeated 50 times and capacity 100 every page breaks
\* on a space and exactly 3 pages are produced.
C14_CutsAtLastSpace ==
    /\ [][pc = "loop" /\ pc' = "loop" =>
              LET spaces == Window(pg_i) \cap At({" "})
              IN  /\ spaces # {} =>
                         pg_i' \in spaces /\ \A p \in spaces : p <= pg_i'
                  /\ spaces = {} =>
                         pg_i' = Min(pg_i + CurrentCapacity,
                                     Len(current_full_text))
                  /\ InsideRun(pg_i', {" "}) => spaces = {}
                  /\ current_full_text = FiftyWords /\ CurrentCapacity = 100
                         => pg_i' \in At({" "})
                                \/ pg_i' = Len(current_full_text)]_vars
    /\ [](PagDone /\ current_full_text = FiftyWords /\ CurrentCapacity = 100
              => Len(pages) = 3)

\* 'word ' repeated 50 times has been paginated at capacity 100: 3 pages.
C14_Witness ==
    /\ PagDone
    /\ current_full_text = FiftyWords
    /\ CurrentCapacity = 100
    /\ Len(pages) = 3

\* C14 as stated: a page boundary falls inside a whitespace-free run only
\* when that run covers the whole search window.
C14_NeverSplitsWord ==
    [][pc = "loop" /\ pc' = "loop" /\ InsideRun(pg_i', Whitespace)
           => Window(pg_i) \cap At(Whitespace) = {}]_vars


\* Every page but the last has exactly capacity characters.
FullPages == \A k \in 1 .. Len(pages) - 1 : Len(pages[k]) = CurrentCapacity

\* C15 (amended): no page is longer than capacity, for every text; for a
\* text with no whitespace at all every page except possibly the last has
\* exactly capacity characters (1000 characters at capacity 100: 10 pages
\* of 100).
C15_PageLengths ==
    PagDone =>
        /\ \A k \in 1 .. Len(pages) : Len(pages[k]) <= CurrentCapacity
        /\ At(Whitespace) = {} => FullPages
        /\ /\ At(Whitespace) = {}
           /\ Len(current_full_text) = 1000
           /\ CurrentCapacity = 100
           => /\ Len(pages) = 10
              /\ \A k \in 1 .. Len(pages) : Len(pages[k]) = 100

\* A text of 1000 characters and no whitespace has been paginated at
\* capacity 100.
C15_Witness ==
    /\ PagDone
    /\ At(Whitespace) = {}
    /\ Len(current_full_text) = 1000
    /\ CurrentCapacity = 100
    /\ Len(pages) = 10

\* C15 as stated: a text with no spaces at all has pages of exactly
\* capacity characters, but for the last.
C15_NoSpacesFullPages ==
    PagDone /\ At({" "}) = {} => FullPages


\* C16 (amended): a page is emitted for every span the loop cuts, and it is
\* empty exactly when its span text[i:split_pos] holds whitespace only; a
\* page set always has a page, and that of an empty book is one empty page.
C16_EmptyPageIsBlankSpan ==
    /\ [][pc = "loop" /\ pc' = "loop" =>
              /\ Len(pg_pages') = Len(pg_pages) + 1
              /\ pg_pages'[Len(pg_pages')] = <<>>
                     <=> pg_i .. pg_i' - 1 \subseteq At(Whitespace)]_vars
    /\ [](PagDone =>
              /\ Len(pages) >= 1
              /\ current_full_text = <<>> => pages = << <<>> >>
              /\ current_full_text # <<>> => pages = pg_pages)

\* A book text that is not empty has been paginated into pages of which
\* one is empty.
C16_Witness ==
    /\ PagDone
    /\ current_full_text # <<>>
    /\ \E k \in 1 .. Len(pages) : pages[k] = <<>>

\* C16 as stated: every page text is non-empty, for every non-empty book
\* text and capacity; the only page set that holds an empty page is the
\* single-page set of an empty book.
C16_PagesNonEmpty ==
    PagDone =>
        \/ \A k \in 1 .. Len(pages) : pages[k] # <<>>
        \/ current_full_text = <<>> /\ pages = << <<>> >>


\* The session as it is before any pagination: no page set, index 0.
FreshSession == [Self EXCEPT !.pages = <<>>, !.current_page_index = 0]

\* C17: the pages a pagination assigns are those of the text and the
\* viewport metrics alone, whatever the page set and the index the call
\* found and whatever ratio it was given; paginating again, with any ratio,
\* yields the same pages.
C17_PaginateIsFunction ==
    pc \in {"index", "show", "done"} =>
        /\ pages = paginate_current_text(FreshSession, Zero).pages
        /\ \A r \in PagRatios : paginate_current_text(Self, r).pages = pages

\* A text of several pages has been paginated by a call that found an
\* earlier page set shown at its second page, just before the index of the
\* ratio is assigned.
C17_Witness ==
    /\ pc = "index"
    /\ current_page_index = 1
    /\ pg_ratio = Ratio(1, 3)
    /\ Len(pages) > 2


\* The characters of a string.
CharsOf(s) == {s[p] : p \in 1 .. Len(s)}

\* t is the base name of the path without its extension: the path ends
\* with a name that holds no "/" and follows one, if anything; the name is
\* t and an extension, which is a dot and characters other than a dot, or
\* nothing when no dot of the name has a character other than a dot
\* before it (Python's rule: leading dots belong to the name).
IsStem(t, path) ==
    \E k \in 0 .. Len(path), e \in 0 .. Len(path) :
        LET name == SubSeq(path, k + 1, Len(path))
            ext == SubSeq(name, Len(name) - e + 1, Len(name))
        IN  /\ k = 0 \/ path[k] = "/"
            /\ "/" \notin CharsOf(name)
            /\ e <= Len(name)
            /\ name = t \o ext
            /\ IF e > 0
               THEN /\ ext[1] = "."
                    /\ "." \notin CharsOf(Tail(ext))
                    /\ CharsOf(t) \ {"."} # {}
               ELSE ~\E i, j \in 1 .. Len(name) :
                        i < j /\ name[i] # "." /\ name[j] = "."

\* parse_fb2_book_info has been applied.
Parsed == fb2_info # Absent

\* extract_fb2_title has been applied.
Extracted == fb2_title # Absent

\* C18: for a file that ET.parse fails on, parse_fb2_book_info raises
\* nothing and returns a record whose title is the base name of the path
\* without its extension, whose authors and genres are empty and whose
\* other fields are all absent.
C18_UnparsableGivesStemOnly ==
    Parsed /\ fb2_file.error # None =>
        LET info == fb2_info[1].value
        IN  /\ fb2_info[1].raised = None
            /\ info.title # Absent
            /\ IsStem(info.title[1], fb2_path)
            /\ info.authors = <<>>
            /\ info.genres = <<>>
            /\ \A f \in {"publisher", "date", "lang", "description",
                         "cover_bytes", "full_text"} : info[f] = Absent

\* parse_fb2_book_info has returned for d/a.fb2, a file that does not
\* exist: the title is "a".
C18_Witness ==
    /\ Parsed
    /\ fb2_file.error = "FileNotFoundError"
    /\ fb2_path = <<"d", "/", "a", ".", "f", "b", "2">>
    /\ fb2_info[1].value.title = Some(<<"a">>)

\* The local part of a tag: its last part.
LocalPart(tag) == tag[Len(tag)]

\* The index of the first child of elem with the local name, 0 for none.
FirstNamed(elem, name) ==
    LET ks == {k \in 1 .. Len(elem.children) :
                   LocalPart(elem.children[k].tag) = name}
    IN  IF ks = {} THEN 0 ELSE CHOOSE k \in ks : \A j \in ks : k <= j

\* The trimmed text of description/title-info/book-title of the parsed
\* file, each the first child of that name; empty when one is missing.
TrimmedBookTitle ==
    LET root == fb2_file.root
        d == FirstNamed(root, "description")
        ti == FirstNamed(root.children[d], "title-info")
        bt == FirstNamed(root.children[d].children[ti], "book-title")
    IN  IF d = 0 THEN <<>>
        ELSE IF ti = 0 THEN <<>>
        ELSE IF bt = 0 THEN <<>>
        ELSE Strip(itertext(root.children[d].children[ti].children[bt]))

\* C19: extract_fb2_title returns what parse_fb2_book_info returns as the
\* title, for every file: the trimmed text of
\* description/title-info/book-title when the file parses and that text is
\* not empty, and the base name of the path without its extension
\* otherwise.
C19_FastPathAgrees ==
    /\ Extracted /\ Parsed =>
           /\ fb2_title[1].raised = None
           /\ fb2_info[1].raised = None
           /\ fb2_info[1].value.title = Some(fb2_title[1].value)
    /\ Extracted =>
           IF fb2_file.error = None /\ TrimmedBookTitle # <<>>
           THEN fb2_title[1].value = TrimmedBookTitle
           ELSE IsStem(fb2_title[1].value, fb2_path)

\* Both functions have returned the title "Ti" of a file whose elements
\* are in the FictionBook namespace and whose book-title holds inline
\* markup and surrounding whitespace.
C19_Witness ==
    /\ Extracted
    /\ Parsed
    /\ fb2_file.error = None
    /\ Len(fb2_file.root.tag) > 1
    /\ fb2_title[1].value = <<"T", "i">>
    /\ fb2_info[1].value.title = Some(<<"T", "i">>)


\* The positions of an element and of its descendants: the indices of the
\* children on the way down from the element, <<>> for the element itself.
RECURSIVE Positions(_)
Positions(elem) ==
    {<<>>} \cup UNION {{<<k>> \o q : q \in Positions(elem.children[k])} :
                          k \in 1 .. Len(elem.children)}

\* The element at a position below elem.
RECURSIVE NodeAt(_, _)
NodeAt(elem, pos) ==
    IF pos = <<>> THEN elem ELSE NodeAt(elem.children[Head(pos)], Tail(pos))

\* Document order: an element comes before its descendants, and the
\* subtree of a child before that of the next.
Before(p, q) ==
    \/ Len(p) < Len(q) /\ p = SubSeq(q, 1, Len(p))
    \/ \E i \in 1 .. Len(p) :
           /\ i <= Len(q)
           /\ SubSeq(p, 1, i - 1) = SubSeq(q, 1, i - 1)
           /\ p[i] < q[i]

\* The positions of a set, in document order.
InOrder(S) ==
    [k \in 1 .. Cardinality(S) |->
        CHOOSE p \in S : Cardinality({q \in S : Before(q, p)}) = k - 1]

\* The trimmed text content of the element at a position of the root.
TrimmedAt(pos) == Strip(itertext(NodeAt(fb2_file.root, pos)))

\* The positions of the p elements that descend from a child of the root
\* whose local name is body; with blank set, those of empty trimmed text
\* too.
BodyParagraphs(blank) ==
    {pos \in Positions(fb2_file.root) :
        /\ Len(pos) >= 2
        /\ LocalPart(fb2_file.root.children[pos[1]].tag) = "body"
        /\ LocalPart(NodeAt(fb2_file.root, pos).tag) = "p"
        /\ blank \/ TrimmedAt(pos) # <<>>}

\* The trimmed texts at the positions of S, in document order, with a
\* blank line between one and the next; absent when S is empty.
JoinedInOrder(S) ==
    IF S = {} THEN Absent
    ELSE Some(Join(<<"\n", "\n">>,
                   [k \in 1 .. Cardinality(S) |-> TrimmedAt(InOrder(S)[k])]))

\* The root holds two bodies, the p elements A, B and C, D.
TwoBodies ==
    LET bodies == {k \in 1 .. Len(fb2_file.root.children) :
                       LocalPart(fb2_file.root.children[k].tag) = "body"}
    IN  /\ Cardinality(bodies) = 2
        /\ [k \in 1 .. 4 |-> TrimmedAt(InOrder(BodyParagraphs(TRUE))[k])]
               = << <<"A">>, <<"B">>, <<"C">>, <<"D">> >>
        /\ Cardinality(BodyParagraphs(TRUE)) = 4

\* C20 (amended): full_text is the trimmed text content of every
\* descendant p element of every direct child of the root whose local name
\* is body, those whose trimmed text is empty left out, in document order
\* across the bodies, joined by '\n\n'; it is absent, not the empty
\* string, when no p element with a text is found; two bodies holding A, B
\* and C, D give 'A\n\nB\n\nC\n\nD'.
C20_FullTextOfBodies ==
    Parsed /\ fb2_file.error = None =>
        LET full_text == fb2_info[1].value.full_text
        IN  /\ full_text = JoinedInOrder(BodyParagraphs(FALSE))
            /\ full_text # Some(<<>>)
            /\ Cardinality(BodyParagraphs(TRUE)) = 4 /\ TwoBodies =>
                   full_text = Some(<<"A", "\n", "\n", "B", "\n", "\n",
                                      "C", "\n", "\n", "D">>)

\* A file has been parsed whose body holds, inside a section, a blank p
\* element and a p element inside another: the blank one is left out.
C20_Witness ==
    /\ Parsed
    /\ fb2_file.error = None
    /\ BodyParagraphs(TRUE) # BodyParagraphs(FALSE)
    /\ fb2_info[1].value.full_text
           = Some(<<"A", "\n", "\n", "B", "C", "\n", "\n", "D", "E",
                    "\n", "\n", "E">>)

\* C20 as stated: full_text joins the trimmed text of every descendant p
\* element of the bodies, and is absent when there is no p element.
C20_EveryParagraph ==
    Parsed /\ fb2_file.error = None =>
        fb2_info[1].value.full_text = JoinedInOrder(BodyParagraphs(TRUE))

---------------------------------------------------------------------------
(* C21: the cover.                                                         *)

\* The position below elem reached by taking, for each name in turn, the
\* first child of that local name; absent when one is missing.
RECURSIVE FirstPath(_, _)
FirstPath(elem, names) ==
    IF names = <<>> THEN Some(<<>>)
    ELSE LET k == FirstNamed(elem, Head(names))
             rest == IF k = 0 THEN Absent
                     ELSE FirstPath(elem.children[k], Tail(names))
         IN  IF rest = Absent THEN Absent ELSE Some(<<k>> \o rest[1])

\* The reference of the cover of the parsed file: the href attribute of
\* description/title-info/coverpage/image, its XLink href attribute when
\* href is missing or empty; empty when there is none.
CoverRef ==
    LET at == FirstPath(fb2_file.root,
                        <<"description", "title-info", "coverpage", "image">>)
        attrib == NodeAt(fb2_file.root, at[1]).attrib
    IN  IF at = Absent THEN <<>>
        ELSE IF "href" \in DOMAIN attrib /\ attrib["href"] # <<>>
        THEN attrib["href"]
        ELSE IF XlinkHref \in DOMAIN attrib THEN attrib[XlinkHref]
        ELSE <<>>

\* The reference without its leading '#' characters.
CoverId ==
    LET ref == CoverRef
        k == CHOOSE n \in 0 .. Len(ref) :
                 /\ \A j \in 1 .. n : ref[j] = "#"
                 /\ n = Len(ref) \/ ref[n + 1] # "#"
    IN  SubSeq(ref, k + 1, Len(ref))

\* The positions, anywhere in the document, of the binary elements whose
\* id is that of the cover; none when the reference is missing or empty.
CoverMatches ==
    IF CoverId = <<>> THEN {}
    ELSE {pos \in Positions(fb2_file.root) :
             LET elem == NodeAt(fb2_file.root, pos)
             IN  /\ LocalPart(elem.tag) = "binary"
                 /\ "id" \in DOMAIN elem.attrib
                 /\ elem.attrib["id"] = CoverId}

\* The element without the binary elements below it.
RECURSIVE WithoutBinaries(_)
WithoutBinaries(elem) ==
    LET kept == SelectSeq(elem.children,
                          LAMBDA c : LocalPart(c.tag) # "binary")
    IN  [elem EXCEPT
            !.children = [k \in 1 .. Len(kept) |-> WithoutBinaries(kept[k])]]

\* The fields of the parsed file other than the cover are those of the
\* same file without its binary elements, and nothing is raised.
OtherFieldsUnaffected ==
    LET bare == [fb2_file EXCEPT !.root = WithoutBinaries(fb2_file.root)]
    IN  /\ fb2_info[1].raised = None
        /\ [fb2_info[1].value EXCEPT !.cover_bytes = Absent]
               = [parse_fb2_book_info(fb2_path, bare).value
                      EXCEPT !.cover_bytes = Absent]

\* C21 (amended): the cover is resolved by scanning the whole document for
\* binary elements whose id equals the coverpage/image reference with its
\* leading '#' characters stripped: it is decoded from the trimmed text of
\* the first such element in document order, and it is absent, with no
\* error raised and every other field unaffected, when the reference is
\* missing or empty, no binary element has that id, the trimmed text of
\* the first such element is empty, or decoding it fails; a later element
\* of the same id is never used.
C21_CoverOfFirstBinary ==
    Parsed /\ fb2_file.error = None =>
        LET first == InOrder(CoverMatches)[1]
        IN  /\ fb2_info[1].value.cover_bytes
                   = IF CoverMatches = {} THEN Absent
                     ELSE IF TrimmedAt(first) = <<>> THEN Absent
                     ELSE b64decode(TrimmedAt(first))
            /\ OtherFieldsUnaffected

\* Two binary elements have the id of the cover, the first of them in
\* document order inside the body, and the cover is the decoding of that
\* one.
C21_Witness ==
    /\ Parsed
    /\ fb2_file.error = None
    /\ Cardinality(CoverMatches) = 2
    /\ Len(InOrder(CoverMatches)[1]) = 3
    /\ fb2_info[1].value.cover_bytes = Some(<< <<"w", "g", "Q", "A">> >>)

\* C21 as stated: whenever a binary element has the id of the reference,
\* the cover is what decoding the first such element gives, and it is
\* absent only when there is none or decoding fails.
C21_DecodedFromFirst ==
    Parsed /\ fb2_file.error = None =>
        /\ fb2_info[1].value.cover_bytes
               = IF CoverMatches = {} THEN Absent
                 ELSE b64decode(TrimmedAt(InOrder(CoverMatches)[1]))
        /\ OtherFieldsUnaffected

---------------------------------------------------------------------------
(* C23: the first-child lookup.                                            *)

C23_FirstChildOfElement ==
    fb2_child # Absent /\ fb2_child[1].node # Absent =>
        LET call == fb2_child[1]
            k == FirstNamed(call.node[1], call.name)
        IN  /\ call.outcome.raised = None
            /\ call.outcome.value
                   = IF k = 0 THEN Absent
                     ELSE Some(call.node[1].children[k])

---------------------------------------------------------------------------
(* C22: the cache round trip.                                              *)

\* The absolute path built from root_path and rel_path.
AbsOf(root_path, rel_path) == abspath(join2(root_path, rel_path))

\* The folder of an absolute path.
DirOf(path) ==
    LET dir == SubSeq(path, 1, Len(path) - Len(basename(path)) - 1)
    IN  IF dir = <<>> THEN <<"/">> ELSE dir

\* The book items of a tree.
BooksOf(items) == {k \in 1 .. Len(items) : ~items[k].dir}

\* save_cache has written the books of the tree that are files: one entry
\* for each, with its title and its progress, 0 when it has none, under a
\* relative path that leads from the root to its absolute path.
Recorded ==
    LET data == cache_file'[1]
        onDisk == {k \in BooksOf(book_tree) : book_tree[k].path \in files}
    IN  /\ cache_file' # Absent
        /\ data.root_path = current_root_path
        /\ Len(data.books) = Cardinality(onDisk)
        /\ \A k \in onDisk :
               \E n \in 1 .. Len(data.books) :
                   /\ AbsOf(data.root_path, data.books[n].rel_path)
                          = abspath(book_tree[k].path)
                   /\ data.books[n].title = book_tree[k].text
                   /\ data.books[n].progress
                          = Get(path_progress, abspath(book_tree[k].path))

\* load_cache has restored every entry of the cache file: the progress
\* map holds the entries' ratios under their absolute paths and nothing
\* else, and the tree holds one book item of the title for each.
Restored ==
    LET data == cache_file[1]
    IN  /\ current_root_path' = data.root_path
        /\ DOMAIN path_progress'
               = {AbsOf(data.root_path, data.books[n].rel_path) :
                      n \in 1 .. Len(data.books)}
        /\ Cardinality(BooksOf(book_tree')) = Len(data.books)
        /\ \A n \in 1 .. Len(data.books) :
               LET abs == AbsOf(data.root_path, data.books[n].rel_path)
               IN  /\ path_progress'[abs] = data.books[n].progress
                   /\ \E k \in BooksOf(book_tree') :
                          /\ abspath(book_tree'[k].path) = abs
                          /\ book_tree'[k].text = data.books[n].title

\* The tree load_cache has built is made from the relative paths: the top
\* item is the root, there is one folder item for each distinct prefix of
\* the folders of an entry, and every item is the child of the item of its
\* folder.
TreeOfPrefixes ==
    LET data == cache_file[1]
        items == book_tree'
        foldersOf(n) ==
            LET parts == Split(data.books[n].rel_path, "/")
            IN  SubSeq(parts, 1, Len(parts) - 1)
        prefixes ==
            UNION {{SubSeq(foldersOf(n), 1, m) :
                        m \in 1 .. Len(foldersOf(n))} :
                       n \in 1 .. Len(data.books)}
        made == {k \in 2 .. Len(items) : items[k].dir}
    IN  /\ items[1].dir /\ items[1].parent = 0
        /\ items[1].path = data.root_path
        /\ Cardinality(made) = Cardinality(prefixes)
        /\ \A pre \in prefixes :
               \E k \in made :
                   /\ abspath(items[k].path)
                          = AbsOf(data.root_path, Join(<<"/">>, pre))
                   /\ items[k].text = pre[Len(pre)]
        /\ \A k \in 2 .. Len(items) :
               /\ items[k].parent \in 1 .. k - 1
               /\ items[items[k].parent].dir
               /\ abspath(items[items[k].parent].path)
                      = DirOf(abspath(items[k].path))

\* The round trip: every book of the tree the program closed with whose
\* file is still there has, after the start, the progress it had, 0 when it
\* had none, and an item of the title it had.
RoundTrip ==
    \A k \in BooksOf(book_tree) :
        book_tree[k].path \in files =>
            /\ abspath(book_tree[k].path) \in DOMAIN path_progress'
            /\ path_progress'[abspath(book_tree[k].path)]
                   = Get(path_progress, abspath(book_tree[k].path))
            /\ \E j \in BooksOf(book_tree') :
                   /\ abspath(book_tree'[j].path)
                          = abspath(book_tree[k].path)
                   /\ book_tree'[j].text = book_tree[k].text

\* C22: the cache file save_cache writes on closing records every book of
\* the tree that is a file, with its title, its progress and the path
\* from the root; load_cache of it, when root_path is still a folder,
\* restores for each recorded book the same progress under the absolute
\* path built from root_path and rel_path and the same title, and builds
\* the tree from the relative paths alone, one folder item for each
\* distinct path prefix, whatever the disk holds.
C22_CacheRoundTrip ==
    [][/\ running /\ ~running' /\ current_root_path # <<>> => Recorded
       /\ ~running /\ running' /\ cache_file # Absent
              /\ cache_file[1].root_path \in dirs
              => /\ Restored
                 /\ TreeOfPrefixes
                 /\ current_root_path # <<>> => RoundTrip]_vars

\* The program runs on a loaded cache: a book keeps the progress 1/2 and
\* the title T although its file is no longer on the disk, a book that had
\* no progress has 0, and the tree holds the root, the folders d and d/e
\* and the three books.
C22_Witness ==
    /\ running
    /\ cache_file # Absent
    /\ Len(book_tree) = 6
    /\ Cardinality(BooksOf(book_tree)) = 3
    /\ \E k \in BooksOf(book_tree) :
           /\ book_tree[k].path \notin files
           /\ book_tree[k].text = <<"T">>
           /\ Get(path_progress, abspath(book_tree[k].path)) = Ratio(1, 2)
    /\ \E k \in BooksOf(book_tree) :
           /\ abspath(book_tree[k].path) \in DOMAIN path_progress
           /\ path_progress[abspath(book_tree[k].path)] = Zero

---------------------------------------------------------------------------
(* C24, C25: the pages and the progress of the current book.               *)

\* The page list is a pagination of the text of the current book, for a
\* size of the viewport.
PagesOfCurrentBook ==
    /\ current_book_path \in BookSet
    /\ \E w \in Widths, h \in Heights :
           pages = SplitFrom(BookText(library, current_book_path), 0,
                             Capacity(w, h, avg_char_w, line_h))

\* The handler that ran last displayed a page and wrote the progress of
\* the book.
DisplayedPage ==
    /\ is_reading
    /\ pages # <<>>
    /\ \/ op.name \in {"go_next_page", "go_prev_page", "on_page_edit_return",
                       "singleShot"}
       \/ op.name = "on_reader_resized" /\ op.ratio # NoRatio

\* C24: whenever the session is in reading mode and a handler has
\* displayed a page and written the progress of the current book, the page
\* list is a pagination of the text of that book, never that of a book
\* opened before.
C24_PagesOfCurrentBook == DisplayedPage => PagesOfCurrentBook

\* The handlers that paginate or turn the page: the deferred pagination,
\* next page, previous page, the page-number entry and the resize.
TurnsPage ==
    op'.name \in {"singleShot", "go_next_page", "go_prev_page",
                  "on_page_edit_return", "on_reader_resized"}

\* C25: the deferred pagination, next page, previous page, the page-number
\* entry and the resize leave the progress entry of every book other than
\* the current one as it was, present or not, and when the session is not
\* in reading mode they leave the whole progress map as it was.
C25_ProgressFrame ==
    [][TurnsPage =>
           /\ \A b \in BookSet \ {current_book_path} :
                  /\ b \in DOMAIN book_progress' <=> b \in DOMAIN book_progress
                  /\ b \in DOMAIN book_progress =>
                         book_progress'[b] = book_progress[b]
           /\ ~is_reading => book_progress' = book_progress]_vars

\* Next page has moved book A, read from the ratio 1/2 restored for both
\* books, to its last page, and the entry of B is still 1/2.
C25_Witness ==
    /\ op.name = "go_next_page"
    /\ is_reading
    /\ current_book_path = "A"
    /\ Get(book_progress, "A") = One
    /\ Get(book_progress, "B") = Ratio(1, 2)

---------------------------------------------------------------------------
(* C26: no text is lost.                                                   *)

\* The characters of a text that are not whitespace, in order.
NonWhitespace(text) == SelectSeq(text, LAMBDA ch : ch \notin Whitespace)

\* C26: pagination loses, duplicates and reorders no text.  The slices the
\* iterations take are contiguous and cover the text: after every
\* iteration the pages appended so far hold, read in order, the characters
\* other than whitespace of the text up to the index i the next slice
\* starts at, and i never passes the end; once the loop has ended the page
\* list holds those of the whole text.
C26_NoTextLost ==
    /\ pc = "loop" =>
           /\ pg_i <= Len(current_full_text)
           /\ NonWhitespace(Flatten(pg_pages))
                  = NonWhitespace(SubSeq(current_full_text, 1, pg_i))
    /\ pc \in {"index", "show", "done"} =>
           NonWhitespace(Flatten(pages)) = NonWhitespace(current_full_text)

\* A text with spaces and line breaks has been cut into three pages or
\* more, whitespace has been trimmed off them, and the call has returned.
C26_Witness ==
    /\ PagDone
    /\ Len(pages) >= 3
    /\ "\n" \in CharsOf(current_full_text)
    /\ " " \in CharsOf(current_full_text)
    /\ Len(Flatten(pages)) < Len(current_full_text)
    /\ NonWhitespace(current_full_text) # <<>>

=============================================================================
